---- MODULE Spec2Model ----
(***************************************************************************)
(* Model of the scoring engine of nirf-automation/dashboard/app.py:        *)
(* percentile, safe_float and compute_scores (two passes over the cohort,  *)
(* the weights file read inside the second pass), of the dashboard's       *)
(* handlers that write the inputs store (POST /input, which ranks the      *)
(* cohort, POST /auto and POST /delete), one at a time and interleaved,    *)
(* and of the command-line pipeline of nirf-automation/main.py             *)
(* (NIRFCalculator.run).                                                   *)
(*                                                                         *)
(* Python floats are modelled as exact rationals <<n, d>> in lowest terms  *)
(* with d > 0; rounding error of IEEE doubles, and the values nan and inf   *)
(* that float() accepts as strings, are outside the model.                 *)
(***************************************************************************)
EXTENDS Integers, Sequences, FiniteSets, TLC

VARIABLES
    \* ---- a caller of percentile (two calls on one population) ----
    pvalues,        \* the population passed to percentile
    ptarget,        \* the target of the latest call
    presult,        \* the value the latest call returned
    ptarget_prev,   \* the target of the call before, on the same population
    presult_prev,   \* the value that call returned
    pcalls,         \* calls made on this population so far (0, 1 or 2)
    \* ---- compute_scores ----
    records,            \* the cohort passed to compute_scores
    weights_file,       \* content of core/weights.yaml
    pc,                 \* position in compute_scores
    idx,                \* 1-based index of the record the running loop is at
    lists,              \* the twelve cohort vectors (P_list, ...)
    computed_internals, \* per-record derived values of the first pass
    R_star,             \* cohort anchor
    results,            \* the list being built and returned
    locals,             \* the second pass's local values, one entry per scored record
    err,                \* the exception compute_scores raised ("none" when none)
    prev_results,       \* what the previous call on the same cohort returned
    recalled,           \* TRUE once compute_scores was called a second time
    \* ---- the dashboard (POST /input) ----
    inputs,         \* data/inputs.json: the stored input records
    scores_csv,     \* data/warehouse/nirf_scores.csv: the rows last written
    results_csv,    \* data/warehouse/results_summary.csv: the rows last written
    posts,          \* POST /input requests handled so far
    requests,       \* the POST /input requests in flight: position, record, local list
    \* ---- the command-line pipeline (NIRFCalculator.run) ----
    colleges,       \* what get_college_inputs returned
    colleges_data,  \* one scrape_college_data result per college scraped so far
    scores,         \* one calculate_college_scores result per college scored so far
    cli_pc,         \* position in run
    cli_err         \* the exception run caught ("none" when none)

pvars == <<pvalues, ptarget, presult, ptarget_prev, presult_prev, pcalls>>
evars == <<records, weights_file, pc, idx, lists, computed_internals, R_star,
           results, locals, err, prev_results, recalled>>
dvars == <<inputs, scores_csv, results_csv, posts, requests>>
cvars == <<colleges, colleges_data, scores, cli_pc, cli_err>>
vars == <<pvalues, ptarget, presult, ptarget_prev, presult_prev, pcalls,
          records, weights_file, pc, idx, lists, computed_internals, R_star,
          results, locals, err, prev_results, recalled,
          inputs, scores_csv, results_csv, posts, requests,
          colleges, colleges_data, scores, cli_pc, cli_err>>

-----------------------------------------------------------------------------
(* Exact rational arithmetic standing for Python float arithmetic.          *)

Abs(n) == IF n < 0 THEN -n ELSE n

RECURSIVE GCD(_, _)
GCD(a, b) == IF b = 0 THEN a ELSE GCD(b, a % b)

\* n/d in lowest terms, d # 0
Rat(n, d) ==
    LET g == GCD(Abs(n), Abs(d))
        s == IF d < 0 THEN -1 ELSE 1
    IN  <<(s * n) \div g, (s * d) \div g>>

R(n) == <<n, 1>>

RAdd(a, b) ==
    LET g == GCD(a[2], b[2])
        l == (a[2] \div g) * b[2]
    IN  Rat(a[1] * (l \div a[2]) + b[1] * (l \div b[2]), l)

RNeg(a) == <<-a[1], a[2]>>

RSub(a, b) == RAdd(a, RNeg(b))

RMul(a, b) ==
    LET x == Rat(a[1], b[2])
        y == Rat(b[1], a[2])
    IN  <<x[1] * y[1], x[2] * y[2]>>

\* b # 0: every division of the source is guarded or divides by a literal
RDiv(a, b) == RMul(a, Rat(b[2], b[1]))

RLt(a, b) == a[1] * b[2] < b[1] * a[2]

RLe(a, b) == a[1] * b[2] <= b[1] * a[2]

RMax(a, b) == IF RLt(a, b) THEN b ELSE a

RECURSIVE RSum(_)
RSum(s) == IF s = <<>> THEN R(0) ELSE RAdd(Head(s), RSum(Tail(s)))

RECURSIVE RMaxSeq(_)
RMaxSeq(s) == IF Len(s) = 1 THEN s[1] ELSE RMax(s[1], RMaxSeq(Tail(s)))

\* round(x, 2): the nearest multiple of 1/100, a tie going to the even one
\* (a double is seldom exactly on a tie, so Python may round an exact x.xx5
\* either way; the model rounds the exact value)
Round2(x) ==
    LET y == RMul(x, R(100))
        f == y[1] \div y[2]
        rem == y[1] - f * y[2]
        k == IF 2 * rem < y[2] THEN f
             ELSE IF 2 * rem > y[2] THEN f + 1
             ELSE IF f % 2 = 0 THEN f ELSE f + 1
    IN  Rat(k, 100)

-----------------------------------------------------------------------------
(* percentile(values, target)                                               *)

\* a bug: strict rank (v < target)
percentile_strict(values, target) ==
    IF values = <<>> THEN R(0)
    ELSE LET sorted_vals == SortSeq(values, RLt)
             count_le == Cardinality({i \in DOMAIN sorted_vals : RLt(sorted_vals[i], target)})
         IN  RMul(RDiv(R(count_le), R(Len(sorted_vals))), R(100))

\* a bug: the count is not divided by the population size
percentile_undivided(values, target) ==
    IF values = <<>> THEN R(0)
    ELSE LET sorted_vals == SortSeq(values, RLt)
             count_le == Cardinality({i \in DOMAIN sorted_vals : RLe(sorted_vals[i], target)})
         IN  RMul(R(count_le), R(100))

\* a bug: the comparison is turned round (v >= target)
percentile_reversed(values, target) ==
    IF values = <<>> THEN R(0)
    ELSE LET sorted_vals == SortSeq(values, RLt)
             count_le == Cardinality({i \in DOMAIN sorted_vals : RLe(target, sorted_vals[i])})
         IN  RMul(RDiv(R(count_le), R(Len(sorted_vals))), R(100))

percentile(values, target) ==
    IF values = <<>> THEN R(0)
    ELSE LET sorted_vals == SortSeq(values, RLt)
             count_le == Cardinality({i \in DOMAIN sorted_vals : RLe(sorted_vals[i], target)})
         IN  RMul(RDiv(R(count_le), R(Len(sorted_vals))), R(100))

-----------------------------------------------------------------------------
(* Raw field values of an input record, as the form or the JSON store      *)
(* holds them, and safe_float.                                             *)

Num(n)  == [t |-> "num",  v |-> n, s |-> ""]   \* a number, or a numeral string
Str(x)  == [t |-> "str",  v |-> 0, s |-> x]    \* any other string ("" included)
Bool(b) == [t |-> "bool", v |-> IF b THEN 1 ELSE 0, s |-> ""]
None    == [t |-> "none", v |-> 0, s |-> ""]

\* r.get(key): None for a missing key
Get(r, key) == IF key \in DOMAIN r THEN r[key] ELSE None

\* r.get(key, default)
GetOr(r, key, default) == IF key \in DOMAIN r THEN r[key] ELSE default

\* safe_float(val): None and "" give the default 0.0, float() of a string that
\* is no numeral raises and gives the default, float(True) is 1.0
safe_float(val) ==
    IF val.t = "none" \/ (val.t = "str" /\ val.s = "") THEN R(0)
    ELSE IF val.t = "num" THEN R(val.v)
    ELSE IF val.t = "bool" THEN R(val.v)
    ELSE R(0)

\* Python truth of a raw value (r.get("DAP_ramps") used as a condition)
Truthy(val) ==
    \/ val.t = "bool" /\ val.v = 1
    \/ val.t = "num" /\ val.v # 0
    \/ val.t = "str" /\ val.s # ""

\* str.lower() on the institution types that occur
Lower(x) ==
    IF x \in {"University", "UNIVERSITY", "university"} THEN "university"
    ELSE IF x \in {"College", "COLLEGE", "college"} THEN "college"
    ELSE x

\* (r.get("institution_type") or "college").lower()
InstType(r) ==
    LET val == Get(r, "institution_type")
    IN  IF Truthy(val) THEN Lower(val.s) ELSE "college"

\* the guard "x if x > 0 else 1.0" of the faculty- and publication-normalised ratios
OrOne(x) == IF RLt(R(0), x) THEN x ELSE R(1)

-----------------------------------------------------------------------------
(* First pass of compute_scores: the derived values of one record.         *)

F_total_of(r) ==
    RAdd(safe_float(Get(r, "F1")), RMul(Rat(3, 10), safe_float(Get(r, "F2"))))

P_of(r) ==
    RSum(<< RMul(Rat(3, 10), safe_float(Get(r, "PW"))),
            RMul(Rat(5, 10), safe_float(Get(r, "PS"))),
            RMul(Rat(1, 10), safe_float(Get(r, "PG"))),
            RMul(Rat(1, 10), safe_float(Get(r, "PI"))) >>)

CC_of(r) ==
    RSum(<< RMul(Rat(3, 10), safe_float(Get(r, "CCW"))),
            RMul(Rat(5, 10), safe_float(Get(r, "CCS"))),
            RMul(Rat(1, 10), safe_float(Get(r, "CCG"))),
            RMul(Rat(1, 10), safe_float(Get(r, "CCI"))) >>)

\* a bug: the 1.0 substitution applied to the seat count as well
EXLI_per_student_orone(r) ==
    LET seats_N == safe_float(Get(r, "seats_N"))
        EXLIP == safe_float(Get(r, "EXLIP"))
        EXLIE == safe_float(Get(r, "EXLIE"))
    IN  RAdd(RDiv(EXLIP, OrOne(seats_N)), RDiv(RMul(R(2), EXLIE), OrOne(seats_N)))

EXLI_per_student_of(r) ==
    LET seats_N == safe_float(Get(r, "seats_N"))
        EXLIP == safe_float(Get(r, "EXLIP"))
        EXLIE == safe_float(Get(r, "EXLIE"))
    IN  IF RLt(R(0), seats_N)
        THEN RAdd(RDiv(EXLIP, seats_N), RDiv(RMul(R(2), EXLIE), seats_N))
        ELSE R(0)

\* a change: EXLB divided by the seat count, as EXLIP and EXLIE are
EXLB_per_student_divided(r) ==
    LET seats_N == safe_float(Get(r, "seats_N"))
        EXLB == safe_float(Get(r, "EXLB"))
    IN  IF RLt(R(0), seats_N) THEN RDiv(EXLB, seats_N) ELSE R(0)

\* EXLB is taken as it is (not divided by the seat count) when seats_N > 0
EXLB_per_student_of(r) ==
    LET seats_N == safe_float(Get(r, "seats_N"))
        EXLB == safe_float(Get(r, "EXLB"))
    IN  IF RLt(R(0), seats_N) THEN EXLB ELSE R(0)

\* a bug: the ratio is guarded by the seat count instead of the intake
SR_ratio_by_seats(r) ==
    LET A_apps == safe_float(Get(r, "applications_A"))
        S_intake == safe_float(Get(r, "sanctioned_S"))
        seats_N == safe_float(Get(r, "seats_N"))
    IN  IF RLt(R(0), S_intake) /\ RLt(R(0), seats_N) THEN RDiv(A_apps, S_intake) ELSE R(0)

SR_ratio_of(r) ==
    LET A_apps == safe_float(Get(r, "applications_A"))
        S_intake == safe_float(Get(r, "sanctioned_S"))
    IN  IF RLt(R(0), S_intake) THEN RDiv(A_apps, S_intake) ELSE R(0)

\* the dict appended to computed_internals (lines 147-154)
Internals(r) ==
    [ F_total |-> F_total_of(r),
      P |-> P_of(r),
      CC |-> CC_of(r),
      EXLI_per_student |-> EXLI_per_student_of(r),
      EXLB_per_student |-> EXLB_per_student_of(r),
      SR_ratio |-> SR_ratio_of(r) ]

\* the twelve lists as created empty (lines 78-89)
EmptyLists ==
    [ P_list |-> <<>>, CC_over_F_list |-> <<>>, PF_over_F_list |-> <<>>,
      PG_over_F_list |-> <<>>, EP_over_F_list |-> <<>>,
      EXLI_per_student_list |-> <<>>, EXLB_per_student_list |-> <<>>,
      PE_index_list |-> <<>>, CES_N_list |-> <<>>, RD_other_states_list |-> <<>>,
      RD_other_countries_list |-> <<>>, PR_SR_ratio_list |-> <<>> ]

\* the twelve appends of one first-pass iteration (lines 134-145)
AppendAll(ls, r) ==
    LET F_total == F_total_of(r)
        P == P_of(r)
    IN  [ P_list |-> Append(ls.P_list, RDiv(P, OrOne(F_total))),
          CC_over_F_list |-> Append(ls.CC_over_F_list, RDiv(CC_of(r), OrOne(P))),
          PF_over_F_list |->
              Append(ls.PF_over_F_list, RDiv(safe_float(Get(r, "PF_filed")), OrOne(F_total))),
          PG_over_F_list |->
              Append(ls.PG_over_F_list, RDiv(safe_float(Get(r, "PG_granted")), OrOne(F_total))),
          EP_over_F_list |->
              Append(ls.EP_over_F_list, RDiv(safe_float(Get(r, "EP_revenue")), OrOne(F_total))),
          EXLI_per_student_list |-> Append(ls.EXLI_per_student_list, EXLI_per_student_of(r)),
          EXLB_per_student_list |-> Append(ls.EXLB_per_student_list, EXLB_per_student_of(r)),
          PE_index_list |-> Append(ls.PE_index_list, safe_float(Get(r, "PE_index"))),
          CES_N_list |-> Append(ls.CES_N_list, safe_float(Get(r, "CES_N"))),
          RD_other_states_list |->
              Append(ls.RD_other_states_list, safe_float(Get(r, "RD_other_states"))),
          RD_other_countries_list |->
              Append(ls.RD_other_countries_list, safe_float(Get(r, "RD_other_countries"))),
          PR_SR_ratio_list |-> Append(ls.PR_SR_ratio_list, SR_ratio_of(r)) ]

\* a bug: the anchor is the first ratio of the list, not the largest
Anchor_first(ls) ==
    IF ls.PR_SR_ratio_list = <<>> THEN R(1) ELSE ls.PR_SR_ratio_list[1]

\* R_star = max(PR_SR_ratio_list) if PR_SR_ratio_list else 1.0
Anchor(ls) ==
    IF ls.PR_SR_ratio_list = <<>> THEN R(1) ELSE RMaxSeq(ls.PR_SR_ratio_list)

-----------------------------------------------------------------------------
(* Second pass of compute_scores: the five category calculators.           *)

\* F_over_N = (F_total / seats_N) if seats_N > 0 else 0.0
F_over_N_of(r, internals) ==
    LET seats_N == safe_float(Get(r, "seats_N"))
    IN  IF RLt(R(0), seats_N) THEN RDiv(internals.F_total, seats_N) ELSE R(0)

\* a bug: the floor test is <= instead of <, zeroing a ratio of exactly 1/50
FSR_floor_inclusive(r, internals) ==
    LET F_over_N == F_over_N_of(r, internals)
        FSR == IF InstType(r) = "university"
               THEN RMul(R(20), RMul(R(15), F_over_N))
               ELSE RMul(R(30), RMul(R(20), F_over_N))
    IN  IF RLe(F_over_N, Rat(1, 50)) THEN R(0) ELSE FSR

\* a change: the two multipliers exchanged, 30 * 20 for a university
FSR_swapped(r, internals) ==
    LET F_over_N == F_over_N_of(r, internals)
        FSR == IF InstType(r) = "university"
               THEN RMul(R(30), RMul(R(20), F_over_N))
               ELSE RMul(R(20), RMul(R(15), F_over_N))
    IN  IF RLt(F_over_N, Rat(1, 50)) THEN R(0) ELSE FSR

\* (a) FSR, lines 168-174
FSR_of(r, internals) ==
    LET F_over_N == F_over_N_of(r, internals)
        FSR == IF InstType(r) = "university"
               THEN RMul(R(20), RMul(R(15), F_over_N))
               ELSE RMul(R(30), RMul(R(20), F_over_N))
    IN  IF RLt(F_over_N, Rat(1, 50)) THEN R(0) ELSE FSR

\* a bug: no saturation, the linear term is used above 95 as well
FQ_uncapped(r) ==
    RMul(R(15), RDiv(safe_float(Get(r, "phd_percent")), R(95)))

\* FQ, line 178
FQ_of(r) ==
    LET phd_percent == safe_float(Get(r, "phd_percent"))
    IN  IF RLe(phd_percent, R(95))
        THEN RMul(R(15), RDiv(phd_percent, R(95)))
        ELSE R(15)

\* a bug: avg_exp - 30 is not floored at 0
FE_no_floor(r) ==
    LET avg_exp == safe_float(Get(r, "avg_experience_years"))
        Ei == IF RLe(avg_exp, R(45)) THEN RSub(avg_exp, R(30)) ELSE R(15)
        E == Ei
    IN  IF RLe(E, R(15)) THEN RMul(R(15), RDiv(E, R(15))) ELSE R(15)

\* FE, lines 179-186
FE_of(r) ==
    LET avg_exp == safe_float(Get(r, "avg_experience_years"))
        Ei == IF RLe(avg_exp, R(45)) THEN RMax(RSub(avg_exp, R(30)), R(0)) ELSE R(15)
        E == Ei
    IN  IF RLe(E, R(15)) THEN RMul(R(15), RDiv(E, R(15))) ELSE R(15)

\* (c) Library & Lab, lines 190-200
LI_of(r, internals, ls) ==
    LET p_EXLI == percentile(ls.EXLI_per_student_list, internals.EXLI_per_student)
    IN  IF InstType(r) = "university"
        THEN RDiv(RMul(R(20), p_EXLI), R(100))
        ELSE RDiv(RMul(R(15), p_EXLI), R(100))

LB_of(r, internals, ls) ==
    LET p_EXLB == percentile(ls.EXLB_per_student_list, internals.EXLB_per_student)
    IN  IF InstType(r) = "university"
        THEN RDiv(RMul(R(20), p_EXLB), R(100))
        ELSE RDiv(RMul(R(15), p_EXLB), R(100))

\* (d) SEC, lines 203-207
SEC_of(r) ==
    LET pA == RDiv(safe_float(Get(r, "SEC_pA_percentile")), R(100))
        pB == RDiv(safe_float(Get(r, "SEC_pB_percentile")), R(100))
        winners == safe_float(Get(r, "SEC_winners_count"))
        pC_val == IF RLe(R(3), winners) THEN R(1)
                  ELSE RDiv(safe_float(Get(r, "SEC_pC_percentile")), R(100))
    IN  RMul(R(10), RSum(<<RDiv(pA, R(2)), RDiv(pB, R(4)), RDiv(pC_val, R(4))>>))

\* P_over_F, line 213
P_over_F_of(internals) == RDiv(internals.P, OrOne(internals.F_total))

\* (a) Publications, lines 213-215
PU_of(internals, ls) ==
    RMul(R(45), RDiv(percentile(ls.P_list, P_over_F_of(internals)), R(100)))

\* base_citation_index, lines 221-222
base_citation_index_of(internals, ls) ==
    LET p_P == percentile(ls.P_list, P_over_F_of(internals))
    IN  RMul(RDiv(internals.CC, OrOne(internals.P)), RDiv(p_P, R(100)))

\* (b) Citations, lines 223-224
CI_of(internals, ls) ==
    RMul(R(45), RDiv(percentile(ls.CC_over_F_list, base_citation_index_of(internals, ls)),
                     R(100)))

\* (c) IPR, lines 227-234
IPR_of(r, internals, ls) ==
    LET F_total == internals.F_total
        PF_val == safe_float(Get(r, "PF_filed"))
        PG_granted_val == safe_float(Get(r, "PG_granted"))
        EP_val == safe_float(Get(r, "EP_revenue"))
        PF_comp == RMul(R(2), RDiv(percentile(ls.PF_over_F_list,
                                              RDiv(PF_val, OrOne(F_total))), R(100)))
        PG_comp == RMul(R(4), RDiv(percentile(ls.PG_over_F_list,
                                              RDiv(PG_granted_val, OrOne(F_total))), R(100)))
        I_P == IF RLe(R(1), PG_granted_val)
                  /\ RLe(R(1), safe_float(Get(r, "PL_licensed_count")))
               THEN R(1) ELSE R(0)
        PL_comp == RAdd(RMul(R(2), I_P),
                        RMul(R(2), RDiv(percentile(ls.EP_over_F_list,
                                                   RDiv(EP_val, OrOne(F_total))), R(100))))
    IN  RSum(<<PF_comp, PG_comp, PL_comp>>)

\* 3. GO, lines 239-244
UE_of(r) == RMul(R(50), RDiv(safe_float(Get(r, "UE_graduating_percent")), R(80)))

PE_of(r, ls) ==
    RMul(R(50), RDiv(percentile(ls.PE_index_list, safe_float(Get(r, "PE_index"))), R(100)))

\* 4. OI, lines 247-266
OI_of(r, ls) ==
    LET CES_score == RMul(R(25), RDiv(percentile(ls.CES_N_list,
                                                 safe_float(Get(r, "CES_N"))), R(100)))
        RD_states == RMul(R(18), RDiv(percentile(ls.RD_other_states_list,
                                                 safe_float(Get(r, "RD_other_states"))), R(100)))
        RD_countries == RMul(R(7), RDiv(percentile(ls.RD_other_countries_list,
                                                   safe_float(Get(r, "RD_other_countries"))),
                                        R(100)))
        N1 == safe_float(Get(r, "WS_women_students_percent"))
        N2 == safe_float(Get(r, "WS_women_faculty_percent"))
        N3 == safe_float(Get(r, "WS_women_leadership_percent"))
        WS == RSum(<<RMul(R(8), RDiv(N1, R(50))), RMul(R(8), RDiv(N2, R(20))),
                     RMul(R(4), RDiv(N3, R(2)))>>)
        ESCS == RMul(R(20), RDiv(safe_float(Get(r, "ESCS_disadvantaged_percent")), R(50)))
        DAP == RSum(<< IF Truthy(Get(r, "DAP_ramps")) THEN R(2) ELSE R(0),
                       IF Truthy(Get(r, "DAP_lifts")) THEN R(2) ELSE R(0),
                       IF Truthy(Get(r, "DAP_walking_aids")) THEN R(2) ELSE R(0),
                       IF Truthy(Get(r, "DAP_toilets")) THEN Rat(3, 2) ELSE R(0),
                       IF Truthy(Get(r, "DAP_braille_labs")) THEN R(1) ELSE R(0),
                       IF Truthy(Get(r, "DAP_av_aids")) THEN Rat(3, 2) ELSE R(0) >>)
    IN  RSum(<<CES_score, RAdd(RD_states, RD_countries), WS, ESCS, DAP>>)

\* SR, lines 270-271
SR_of(internals, rstar) ==
    RMul(R(50), IF RLt(R(0), rstar) THEN RDiv(internals.SR_ratio, rstar) ELSE R(0))

-----------------------------------------------------------------------------
(* The weights file and the total, lines 274-297.                          *)

\* the built-in weights (lines 276-282 and 289)
DefaultWeights ==
    [kind |-> "dict",
     map |-> [k \in {"TLR", "RP", "GO", "OI", "PR"} |->
                CASE k = "TLR" -> Num(30) [] k = "RP" -> Num(30) [] k = "GO" -> Num(20)
                  [] k = "OI" -> Num(10) [] k = "PR" -> Num(10)]]

NoMap == [k \in {} |-> None]

\* The try block: the defaults when the file is absent; what yaml.safe_load
\* returns when it exists (None for an empty file, a str or list for a document
\* that is no mapping); the defaults again when safe_load raises.
LoadWeights(file) ==
    IF file.kind = "absent" THEN DefaultWeights
    ELSE IF file.kind = "unparseable" THEN DefaultWeights
    ELSE IF file.kind = "empty" THEN [kind |-> "none", map |-> NoMap]
    ELSE IF file.kind = "scalar" THEN [kind |-> "scalar", map |-> NoMap]
    ELSE [kind |-> "dict", map |-> file.map]

\* weights[key]: KeyError for a missing key, TypeError when weights is no
\* mapping; and float * value: TypeError when the value is no number
Subscript(weights, key) ==
    IF weights.kind # "dict" THEN [err |-> "TypeError", val |-> R(0)]
    ELSE IF key \notin DOMAIN weights.map THEN [err |-> "KeyError", val |-> R(0)]
    ELSE IF weights.map[key].t \notin {"num", "bool"} THEN [err |-> "TypeError", val |-> R(0)]
    ELSE [err |-> "none", val |-> R(weights.map[key].v)]

\* a bug: the RPII spelling of the key is not looked up, weights.get("RP", 30.0)
RPWeight_no_alias(weights) ==
    IF weights.kind # "dict" THEN [err |-> "TypeError", val |-> R(0)]
    ELSE LET val == IF "RP" \in DOMAIN weights.map THEN weights.map["RP"] ELSE Num(30)
         IN  IF val.t \notin {"num", "bool"} THEN [err |-> "TypeError", val |-> R(0)]
             ELSE [err |-> "none", val |-> R(val.v)]

\* weights.get("RP", weights.get("RPII", 30.0))
RPWeight(weights) ==
    IF weights.kind # "dict" THEN [err |-> "TypeError", val |-> R(0)]
    ELSE LET val == IF "RP" \in DOMAIN weights.map THEN weights.map["RP"]
                    ELSE IF "RPII" \in DOMAIN weights.map THEN weights.map["RPII"]
                    ELSE Num(30)
         IN  IF val.t \notin {"num", "bool"} THEN [err |-> "TypeError", val |-> R(0)]
             ELSE [err |-> "none", val |-> R(val.v)]

\* total_score, lines 291-297: the first term that raises decides the exception
TotalScore(weights, TLR, RPII, GO, OI, PR) ==
    LET w == << Subscript(weights, "TLR"), RPWeight(weights), Subscript(weights, "GO"),
                Subscript(weights, "OI"), Subscript(weights, "PR") >>
        bad == {i \in 1..5 : w[i].err # "none"}
        first == CHOOSE i \in bad : \A j \in bad : i <= j
    IN  IF bad # {} THEN [err |-> w[first].err, val |-> R(0)]
        ELSE [err |-> "none",
              val |-> RDiv(RSum(<< RMul(TLR, w[1].val), RMul(RPII, w[2].val),
                                   RMul(GO, w[3].val), RMul(OI, w[4].val),
                                   RMul(PR, w[5].val) >>), R(100))]

\* the eleven percentile ranks of one second-pass iteration (lines 192-250)
Percentiles(r, internals, ls) ==
    LET F_total == internals.F_total
    IN  [ p_EXLI |-> percentile(ls.EXLI_per_student_list, internals.EXLI_per_student),
          p_EXLB |-> percentile(ls.EXLB_per_student_list, internals.EXLB_per_student),
          p_pub |-> percentile(ls.P_list, P_over_F_of(internals)),
          p_citation |-> percentile(ls.CC_over_F_list,
                                    base_citation_index_of(internals, ls)),
          p_PF |-> percentile(ls.PF_over_F_list,
                              RDiv(safe_float(Get(r, "PF_filed")), OrOne(F_total))),
          p_PG |-> percentile(ls.PG_over_F_list,
                              RDiv(safe_float(Get(r, "PG_granted")), OrOne(F_total))),
          p_EP |-> percentile(ls.EP_over_F_list,
                              RDiv(safe_float(Get(r, "EP_revenue")), OrOne(F_total))),
          p_pe |-> percentile(ls.PE_index_list, safe_float(Get(r, "PE_index"))),
          p_CES |-> percentile(ls.CES_N_list, safe_float(Get(r, "CES_N"))),
          p_RD_states |-> percentile(ls.RD_other_states_list,
                                     safe_float(Get(r, "RD_other_states"))),
          p_RD_countries |-> percentile(ls.RD_other_countries_list,
                                        safe_float(Get(r, "RD_other_countries"))) ]

\* the local values of one second-pass iteration (lines 161-297)
Locals(r, internals, ls, rstar, file) ==
    LET FSR == FSR_of(r, internals)
        FQ == FQ_of(r)
        FE == FE_of(r)
        FQE == RAdd(FQ, FE)
        LI == LI_of(r, internals, ls)
        LB == LB_of(r, internals, ls)
        LL == RAdd(LI, LB)
        SEC == SEC_of(r)
        TLR == RSum(<<FSR, FQE, LL, SEC>>)
        PU == PU_of(internals, ls)
        CI == CI_of(internals, ls)
        IPR == IPR_of(r, internals, ls)
        RPII == RSum(<<PU, CI, IPR>>)
        UE == UE_of(r)
        PE == PE_of(r, ls)
        GO == RAdd(UE, PE)
        OI == OI_of(r, ls)
        SR == SR_of(internals, rstar)
        PR == RAdd(safe_float(Get(r, "PR_survey")), SR)
        weights == LoadWeights(file)
        total == TotalScore(weights, TLR, RPII, GO, OI, PR)
    IN  [ inst_type |-> InstType(r), F_over_N |-> F_over_N_of(r, internals),
          FSR |-> FSR, FQ |-> FQ, FE |-> FE, FQE |-> FQE,
          LI |-> LI, LB |-> LB, LL |-> LL, SEC |-> SEC, TLR |-> TLR,
          PU |-> PU, base_citation_index |-> base_citation_index_of(internals, ls),
          CI |-> CI, IPR |-> IPR, RPII |-> RPII,
          UE |-> UE, PE |-> PE, GO |-> GO, OI |-> OI,
          SR_ratio |-> internals.SR_ratio, SR |-> SR, PR |-> PR,
          pct |-> Percentiles(r, internals, ls),
          weights |-> weights, err |-> total.err, total_score |-> total.val ]

\* a bug: the name is read under a key the records do not have
ResultOf_wrong_key(r, l) ==
    [ college_name |-> Get(r, "name"),
      institution_type |-> l.inst_type,
      image_url |-> GetOr(r, "image_url", Str("")),
      website_url |-> GetOr(r, "website_url", Str("")),
      scraping_status |-> GetOr(r, "scraping_status", Str("manual_input")),
      TLR |-> Round2(l.TLR), RP |-> Round2(l.RPII), GO |-> Round2(l.GO),
      OI |-> Round2(l.OI), PR |-> Round2(l.PR), Total |-> Round2(l.total_score) ]

\* the dict appended to results (lines 299-311)
ResultOf(r, l) ==
    [ college_name |-> Get(r, "college_name"),
      institution_type |-> l.inst_type,
      image_url |-> GetOr(r, "image_url", Str("")),
      website_url |-> GetOr(r, "website_url", Str("")),
      scraping_status |-> GetOr(r, "scraping_status", Str("manual_input")),
      TLR |-> Round2(l.TLR), RP |-> Round2(l.RPII), GO |-> Round2(l.GO),
      OI |-> Round2(l.OI), PR |-> Round2(l.PR), Total |-> Round2(l.total_score) ]

\* the twelve lists after the first loop (lines 93-145)
RECURSIVE ListsOf(_)
ListsOf(recs) ==
    IF recs = <<>> THEN EmptyLists
    ELSE AppendAll(ListsOf(SubSeq(recs, 1, Len(recs) - 1)), recs[Len(recs)])

\* the second loop over a cohort whose lists are ls: one Locals per record
LocalsOf(recs, ls, file) ==
    [i \in 1..Len(recs) |-> Locals(recs[i], Internals(recs[i]), ls, Anchor(ls), file)]

\* compute_scores(recs) as its callers see it: the list it returns, or the
\* exception of the first record whose iteration raises
compute_scores(recs, file) ==
    CHOOSE out \in
        { LET bad == {i \in DOMAIN ll : ll[i].err # "none"}
          IN  IF bad # {}
              THEN [err |-> ll[CHOOSE i \in bad : \A j \in bad : i <= j].err,
                    results |-> <<>>]
              ELSE [err |-> "none",
                    results |-> [i \in DOMAIN ll |-> ResultOf(recs[i], ll[i])]] :
            ll \in { LocalsOf(recs, ls, file) : ls \in {ListsOf(recs)} } } : TRUE

-----------------------------------------------------------------------------
(* Inputs: the cohorts and weights files the model runs compute_scores on. *)

MaxCohort == 2      \* records in a cohort
MaxLen == 3         \* members of a population handed to percentile directly
MaxPosts == 3       \* POST /input requests in a run of the dashboard
MaxRequests == 2    \* POST /input requests handled at the same time

\* the record POST /input builds from an empty form (lines 615-673)
BaseRecord ==
    [ college_name |-> Str("A"), website_url |-> Str(""), image_url |-> Str(""),
      institution_type |-> Str("college"), scraping_status |-> Str("manual_input"),
      F1 |-> Num(0), F2 |-> Num(0), seats_N |-> Num(0),
      phd_percent |-> Num(0), avg_experience_years |-> Num(0),
      EXLIP |-> Num(0), EXLIE |-> Num(0), EXLB |-> Num(0),
      SEC_pA_percentile |-> Num(0), SEC_pB_percentile |-> Num(0),
      SEC_pC_percentile |-> Num(0), SEC_winners_count |-> Num(0),
      PW |-> Num(0), PS |-> Num(0), PG |-> Num(0), PI |-> Num(0),
      CCW |-> Num(0), CCS |-> Num(0), CCG |-> Num(0), CCI |-> Num(0),
      PF_filed |-> Num(0), PG_granted |-> Num(0), PL_licensed_count |-> Num(0),
      EP_revenue |-> Num(0),
      UE_graduating_percent |-> Num(0), PE_index |-> Num(0),
      CES_N |-> Num(0), RD_other_states |-> Num(0), RD_other_countries |-> Num(0),
      WS_women_students_percent |-> Num(0), WS_women_faculty_percent |-> Num(0),
      WS_women_leadership_percent |-> Num(0), ESCS_disadvantaged_percent |-> Num(0),
      DAP_ramps |-> Bool(FALSE), DAP_lifts |-> Bool(FALSE), DAP_walking_aids |-> Bool(FALSE),
      DAP_toilets |-> Bool(FALSE), DAP_braille_labs |-> Bool(FALSE), DAP_av_aids |-> Bool(FALSE),
      PR_survey |-> Num(0), applications_A |-> Num(0), sanctioned_S |-> Num(0) ]

\* a filled-in record: the base every varied record starts from
TypicalRecord ==
    [ BaseRecord EXCEPT !.seats_N = Num(1000), !.F1 = Num(100),
                        !.phd_percent = Num(95), !.avg_experience_years = Num(33),
                        !.EXLIP = Num(3000), !.EXLB = Num(40),
                        !.SEC_pA_percentile = Num(50), !.UE_graduating_percent = Num(80),
                        !.WS_women_students_percent = Num(50), !.DAP_ramps = Bool(TRUE),
                        !.PR_survey = Num(20), !.applications_A = Num(200),
                        !.sanctioned_S = Num(100) ]

\* faculty over seats below the 1/50 floor (10/1000), exactly on it (20/1000,
\* from F1 = 17 and F2 = 10) and above it (100/1000), for both institution types
TeachingRecords ==
    { [ TypicalRecord EXCEPT !.F1 = Num(f[1]), !.F2 = Num(f[2]),
                             !.institution_type = Str(ty) ] :
        f \in { <<10, 0>>, <<17, 10>>, <<100, 0>> }, ty \in {"university", "college"} }

\* no seats, with faculty, library spending and applications; with and without intake
SeatlessRecords ==
    { [ TypicalRecord EXCEPT !.seats_N = Num(0), !.institution_type = Str("University"),
                             !.applications_A = Num(500), !.sanctioned_S = Num(100) ],
      [ TypicalRecord EXCEPT !.seats_N = Num(0),
                             !.applications_A = Num(500), !.sanctioned_S = Num(0) ] }

\* publications, citations and patents: with no faculty, and with no publications
ResearchRecords ==
    { [ TypicalRecord EXCEPT !.F1 = Num(0), !.PW = Num(10), !.CCW = Num(10),
                             !.PF_filed = Num(5), !.PG_granted = Num(2),
                             !.EP_revenue = Num(7) ],
      [ TypicalRecord EXCEPT !.F1 = Num(10), !.PW = Num(0), !.CCW = Num(10),
                             !.PF_filed = Num(5), !.PG_granted = Num(2),
                             !.EP_revenue = Num(7), !.sanctioned_S = Num(0) ] }

\* a second college, and a record holding nothing but its name
OtherRecords ==
    { [ BaseRecord EXCEPT !.college_name = Str("B") ],
      [ college_name |-> Str("C") ] }

RecordSet == TeachingRecords \cup SeatlessRecords \cup ResearchRecords \cup OtherRecords

\* the records of the runs that vary the weights file
FewRecords ==
    { TypicalRecord,
      [ TypicalRecord EXCEPT !.college_name = Str("B"), !.F1 = Num(10),
                             !.institution_type = Str("university"), !.phd_percent = Num(46),
                             !.PW = Num(10), !.CCW = Num(10), !.applications_A = Num(500) ],
      [ BaseRecord EXCEPT !.college_name = Str("C") ] }

\* PhD share, average experience, laboratory spending, seats and type varied:
\* <<phd_percent, avg_experience_years, EXLB, seats_N, institution_type>>
DetailRecords ==
    { [ TypicalRecord EXCEPT !.phd_percent = Num(d[1]), !.avg_experience_years = Num(d[2]),
                             !.EXLB = Num(d[3]), !.seats_N = Num(d[4]),
                             !.institution_type = Str(d[5]) ] :
        d \in { <<0, 0, 40, 1000, "college">>, <<50, 30, 30, 100, "university">>,
                <<95, 33, 40, 1000, "university">>, <<96, 45, 0, 1000, "college">>,
                <<100, 46, 30, 100, "college">>, <<94, 60, 40, 100, "university">>,
                <<-10, -5, 50, 2000, "college">>, <<120, 44, 50, 0, "university">> } }

\* the fields compute_scores passes to safe_float, and the six flags
NumericFields ==
    { "F1", "F2", "seats_N", "phd_percent", "avg_experience_years",
      "EXLIP", "EXLIE", "EXLB",
      "SEC_pA_percentile", "SEC_pB_percentile", "SEC_pC_percentile", "SEC_winners_count",
      "PW", "PS", "PG", "PI", "CCW", "CCS", "CCG", "CCI",
      "PF_filed", "PG_granted", "PL_licensed_count", "EP_revenue",
      "UE_graduating_percent", "PE_index", "CES_N", "RD_other_states", "RD_other_countries",
      "WS_women_students_percent", "WS_women_faculty_percent", "WS_women_leadership_percent",
      "ESCS_disadvantaged_percent", "PR_survey", "applications_A", "sanctioned_S" }

FlagFields ==
    { "DAP_ramps", "DAP_lifts", "DAP_walking_aids", "DAP_toilets", "DAP_braille_labs",
      "DAP_av_aids" }

\* a record without the keys of S, and a record holding val under every key of S
Without(r, S) == [k \in DOMAIN r \ S |-> r[k]]
Holding(r, S, val) == [k \in DOMAIN r |-> IF k \in S THEN val ELSE r[k]]

\* sparse records: numeric fields missing, None, "" or no numeral (some of
\* them, or all), flags missing, institution type missing, None or ""
SparseRecords ==
    { Without(TypicalRecord, S) :
        S \in { {"seats_N", "sanctioned_S"}, NumericFields, FlagFields,
                {"institution_type"} } }
    \cup { Holding(TypicalRecord, S, val) :
             S \in { {"F1", "EXLB", "applications_A"}, NumericFields },
             val \in { None, Str(""), Str("n/a") } }
    \cup { Holding([TypicalRecord EXCEPT !.college_name = Str("B")],
                   {"institution_type"}, val) : val \in { None, Str("") } }

\* what the form can submit: three colleges, each with full, university or empty metrics
FormRecords ==
    { [ prof EXCEPT !.college_name = Str(name) ] :
        name \in {"A", "B", "C"},
        prof \in { TypicalRecord, BaseRecord,
                   [ TypicalRecord EXCEPT !.institution_type = Str("university"),
                                          !.PW = Num(10), !.CCW = Num(10) ] } }

Cohorts(S) == UNION { [1..n -> S] : n \in 0..MaxCohort }

\* a weights.yaml naming all five categories, and the same with RPII for RP
CustomMap ==
    [k \in {"TLR", "RP", "GO", "OI", "PR"} |->
        CASE k = "TLR" -> Num(40) [] k = "RP" -> Num(25) [] k = "GO" -> Num(15)
          [] k = "OI" -> Num(12) [] k = "PR" -> Num(8)]

CustomMapRPII ==
    [k \in {"TLR", "RPII", "GO", "OI", "PR"} |->
        IF k = "RPII" THEN Num(25) ELSE CustomMap[k]]

Restrict(f, S) == [k \in S |-> f[k]]

File(kind, map) == [kind |-> kind, map |-> map]

\* well-formed weights files
GoodFiles ==
    { File("absent", NoMap), File("mapping", CustomMap), File("mapping", CustomMapRPII) }

\* files yaml cannot parse, empty files, documents that are no mapping, and a
\* mapping whose TLR is no number
MalformedFiles ==
    { File("unparseable", NoMap), File("empty", NoMap), File("scalar", NoMap),
      File("mapping", [CustomMap EXCEPT !["TLR"] = Str("high")]) }

\* mappings lacking one category
IncompleteFiles ==
    { File("mapping", Restrict(CustomMap, DOMAIN CustomMap \ {k})) :
        k \in DOMAIN CustomMap }
    \cup { File("mapping", Restrict(CustomMapRPII, DOMAIN CustomMapRPII \ {k})) :
             k \in {"TLR", "RPII"} }

WeightFiles == GoodFiles \cup MalformedFiles \cup IncompleteFiles

PVals == { R(0), Rat(1, 2), R(1), R(2) }
PTargets == PVals \cup { R(-1), R(3) }
Populations == UNION { [1..n -> PVals] : n \in 0..MaxLen }

-----------------------------------------------------------------------------
(* compute_scores as a state machine.                                      *)

\* a bug: the list outlives the call (a module-level list)
StaleResults == IF recalled THEN prev_results ELSE <<>>

\* results = [] (line 159)
FreshResults == <<>>

PIdle ==
    /\ pvalues = <<>> /\ ptarget = R(0) /\ presult = R(0)
    /\ ptarget_prev = R(0) /\ presult_prev = R(0) /\ pcalls = 0

EIdle ==
    /\ pc = "idle" /\ idx = 0 /\ lists = EmptyLists /\ computed_internals = <<>>
    /\ R_star = R(1) /\ results = <<>> /\ locals = <<>> /\ err = "none"
    /\ prev_results = <<>> /\ recalled = FALSE

DIdle ==
    /\ inputs = <<>> /\ scores_csv = <<>> /\ results_csv = <<>> /\ posts = 0
    /\ requests = <<>>

CIdle ==
    /\ colleges = <<>> /\ colleges_data = <<>> /\ scores = <<>>
    /\ cli_pc = "idle" /\ cli_err = "none"

\* compute_scores(records) is entered: lines 78-91
Call ==
    /\ pc \in {"idle", "returned"}
    /\ prev_results' = IF pc = "returned" THEN results ELSE prev_results
    /\ recalled' = (pc = "returned")
    /\ lists' = EmptyLists
    /\ computed_internals' = <<>>
    /\ idx' = 1
    /\ pc' = "pass1"
    /\ UNCHANGED <<records, weights_file, R_star, results, locals, err>>
    /\ UNCHANGED <<pvars, dvars, cvars>>

\* a bug: a single streaming loop, each record scored in the first loop
\* against the lists collected so far
FirstPassStep_streaming ==
    /\ pc = "pass1" /\ idx <= Len(records)
    /\ lists' = AppendAll(lists, records[idx])
    /\ computed_internals' = Append(computed_internals, Internals(records[idx]))
    /\ locals' = Append(locals, Locals(records[idx], Internals(records[idx]), lists',
                                       Anchor(lists'), weights_file))
    /\ idx' = idx + 1
    /\ UNCHANGED <<records, weights_file, pc, R_star, results, err, prev_results, recalled>>
    /\ UNCHANGED <<pvars, dvars, cvars>>

\* one iteration of the first loop: lines 93-154
FirstPassStep ==
    /\ pc = "pass1" /\ idx <= Len(records)
    /\ lists' = AppendAll(lists, records[idx])
    /\ computed_internals' = Append(computed_internals, Internals(records[idx]))
    /\ idx' = idx + 1
    /\ UNCHANGED <<records, weights_file, pc, R_star, results, locals, err, prev_results,
                   recalled>>
    /\ UNCHANGED <<pvars, dvars, cvars>>

\* the anchor and the empty results list: lines 157-159
ComputeAnchor ==
    /\ pc = "pass1" /\ idx > Len(records)
    /\ R_star' = Anchor(lists)
    /\ results' = FreshResults
    /\ locals' = <<>>
    /\ idx' = 1
    /\ pc' = "pass2"
    /\ UNCHANGED <<records, weights_file, lists, computed_internals, err, prev_results,
                   recalled>>
    /\ UNCHANGED <<pvars, dvars, cvars>>

\* a bug: the second loop stores the lower-cased institution type back into
\* the record it reads (r["institution_type"] = inst_type)
SecondPassStep_storing ==
    /\ pc = "pass2" /\ idx <= Len(records)
    /\ \E l \in {Locals(records[idx], computed_internals[idx], lists, R_star, weights_file)} :
           /\ locals' = Append(locals, l)
           /\ records' = [records EXCEPT ![idx] =
                             [k \in DOMAIN records[idx] \cup {"institution_type"} |->
                                 IF k = "institution_type" THEN Str(l.inst_type)
                                 ELSE records[idx][k]]]
           /\ IF l.err # "none"
              THEN /\ pc' = "raised"
                   /\ err' = l.err
                   /\ UNCHANGED <<results, idx>>
              ELSE /\ results' = Append(results, ResultOf(records[idx], l))
                   /\ idx' = idx + 1
                   /\ UNCHANGED <<pc, err>>
    /\ UNCHANGED <<weights_file, lists, computed_internals, R_star, prev_results, recalled>>
    /\ UNCHANGED <<pvars, dvars, cvars>>

\* one iteration of the second loop: lines 160-311; weights.yaml is read in it
SecondPassStep ==
    /\ pc = "pass2" /\ idx <= Len(records)
    /\ \E l \in {Locals(records[idx], computed_internals[idx], lists, R_star, weights_file)} :
           /\ locals' = Append(locals, l)
           /\ IF l.err # "none"
              THEN /\ pc' = "raised"
                   /\ err' = l.err
                   /\ UNCHANGED <<results, idx>>
              ELSE /\ results' = Append(results, ResultOf(records[idx], l))
                   /\ idx' = idx + 1
                   /\ UNCHANGED <<pc, err>>
    /\ UNCHANGED <<records, weights_file, lists, computed_internals, R_star, prev_results,
                   recalled>>
    /\ UNCHANGED <<pvars, dvars, cvars>>

\* return results: line 313
Return ==
    /\ pc = "pass2" /\ idx > Len(records)
    /\ pc' = "returned"
    /\ UNCHANGED <<records, weights_file, idx, lists, computed_internals, R_star,
                   results, locals, err, prev_results, recalled>>
    /\ UNCHANGED <<pvars, dvars, cvars>>

Next == Call \/ FirstPassStep \/ ComputeAnchor \/ SecondPassStep \/ Return

\* the engine on every cohort, with a well-formed weights file or none
Init ==
    /\ PIdle /\ EIdle /\ DIdle /\ CIdle
    /\ records \in Cohorts(RecordSet)
    /\ weights_file \in { File("absent", NoMap), File("mapping", CustomMap) }

Spec == Init /\ [][Next]_vars

\* the engine on a few cohorts, with every kind of weights file
InitWeights ==
    /\ PIdle /\ EIdle /\ DIdle /\ CIdle
    /\ records \in Cohorts(FewRecords)
    /\ weights_file \in WeightFiles

SpecWeights == InitWeights /\ [][Next]_vars

\* the engine on cohorts of exactly one record
InitSingle ==
    /\ PIdle /\ EIdle /\ DIdle /\ CIdle
    /\ records \in [1..1 -> RecordSet \cup DetailRecords \cup SparseRecords]
    /\ weights_file \in { File("absent", NoMap), File("mapping", CustomMap) }

SpecSingle == InitSingle /\ [][Next]_vars

\* the engine on cohorts that vary qualification, experience and laboratory spending
InitDetail ==
    /\ PIdle /\ EIdle /\ DIdle /\ CIdle
    /\ records \in Cohorts(DetailRecords)
    /\ weights_file = File("absent", NoMap)

SpecDetail == InitDetail /\ [][Next]_vars

\* graduating percentage, placement index, applications and intake varied:
\* <<UE_graduating_percent, PE_index, applications_A, sanctioned_S>>
OutcomeRecords ==
    { [ TypicalRecord EXCEPT !.UE_graduating_percent = Num(d[1]), !.PE_index = Num(d[2]),
                             !.applications_A = Num(d[3]), !.sanctioned_S = Num(d[4]) ] :
        d \in { <<0, 0, 0, 100>>, <<40, 1, 200, 100>>, <<80, 2, 500, 100>>,
                <<100, 3, 500, 100>>, <<100, 0, 0, 0>>, <<80, 1, 300, 0>>,
                <<60, 2, 100, 100>>, <<81, 3, 0, 100>> } }

\* the engine on cohorts that vary the graduation outcomes and the application ratio
InitOutcome ==
    /\ PIdle /\ EIdle /\ DIdle /\ CIdle
    /\ records \in Cohorts(OutcomeRecords)
    /\ weights_file = File("absent", NoMap)

SpecOutcome == InitOutcome /\ [][Next]_vars

\* another process writes, replaces or removes core/weights.yaml while a call
\* of compute_scores is running
RewriteWeights(file) ==
    /\ pc \in {"pass1", "pass2"}
    /\ file # weights_file
    /\ weights_file' = file
    /\ UNCHANGED <<records, pc, idx, lists, computed_internals, R_star, results, locals,
                   err, prev_results, recalled>>
    /\ UNCHANGED <<pvars, dvars, cvars>>

NextRewrite ==
    \/ Next
    \/ \E file \in { File("absent", NoMap), File("mapping", CustomMap) } : RewriteWeights(file)

\* the engine with a weights file that changes under it
InitRewrite ==
    /\ PIdle /\ EIdle /\ DIdle /\ CIdle
    /\ records \in Cohorts(FewRecords)
    /\ weights_file \in { File("absent", NoMap), File("mapping", CustomMap) }

SpecRewrite == InitRewrite /\ [][NextRewrite]_vars

\* the engine on sparse cohorts, without a weights file and with an empty one
InitSparse ==
    /\ PIdle /\ EIdle /\ DIdle /\ CIdle
    /\ records \in Cohorts(SparseRecords)
    /\ weights_file \in { File("absent", NoMap), File("empty", NoMap) }

SpecSparse == InitSparse /\ [][Next]_vars

-----------------------------------------------------------------------------
(* The dashboard: POST /input stores the submitted record, recomputes the  *)
(* scores of every stored record and writes the two CSV files.             *)

\* a bug: the submitted record is appended whether or not its name is stored
Upsert_append(stored, record) == Append(stored, record)

\* the edit flow of lines 675-684: the first stored record of that name is
\* replaced, a record of a new name is appended
Upsert(stored, record) ==
    LET same == {i \in DOMAIN stored : Get(stored[i], "college_name") = Get(record, "college_name")}
        first == CHOOSE i \in same : \A j \in same : i <= j
    IN  IF same # {} THEN [stored EXCEPT ![first] = record] ELSE Append(stored, record)

\* a bug: sorted ascending and then reversed, which reverses equal totals too
RECURSIVE sorted_then_reversed(_)
sorted_then_reversed(rows) ==
    IF rows = <<>> THEN <<>>
    ELSE LET rest == sorted_then_reversed(SubSeq(rows, 1, Len(rows) - 1))
             x == rows[Len(rows)]
             k == Cardinality({i \in DOMAIN rest : RLt(x.Total, rest[i].Total)})
         IN  SubSeq(rest, 1, k) \o <<x>> \o SubSeq(rest, k + 1, Len(rest))

\* sorted(scores, key=lambda x: x["Total"], reverse=True): Python's sort is
\* stable, also with reverse=True; built here by inserting each row behind
\* the rows whose Total is at least its own
RECURSIVE sorted_by_total(_)
sorted_by_total(rows) ==
    IF rows = <<>> THEN <<>>
    ELSE LET rest == sorted_by_total(SubSeq(rows, 1, Len(rows) - 1))
             x == rows[Len(rows)]
             k == Cardinality({i \in DOMAIN rest : RLe(x.Total, rest[i].Total)})
         IN  SubSeq(rest, 1, k) \o <<x>> \o SubSeq(rest, k + 1, Len(rest))

\* the rows of results_summary.csv (lines 695-708)
SummaryRows(rows) ==
    LET ordered == sorted_by_total(rows)
    IN  [i \in 1..Len(ordered) |->
            [ Rank |-> i, College |-> ordered[i].college_name,
              TLR |-> ordered[i].TLR, RP |-> ordered[i].RP, GO |-> ordered[i].GO,
              OI |-> ordered[i].OI, PR |-> ordered[i].PR,
              Total_Score |-> ordered[i].Total, Status |-> "manual_input" ]]

\* POST /input (lines 614-709): nothing is written to the CSV files when
\* compute_scores raises, the inputs being saved already
InputMetrics(record) ==
    /\ posts < MaxPosts
    /\ posts' = posts + 1
    /\ \E stored \in {Upsert(inputs, record)} :
         /\ inputs' = stored
         /\ \E out \in {compute_scores(stored, weights_file)} :
              IF out.err # "none"
              THEN UNCHANGED <<scores_csv, results_csv>>
              ELSE /\ scores_csv' = out.results
                   /\ results_csv' = SummaryRows(out.results)
    /\ UNCHANGED <<pvars, evars, cvars, requests>>

NextDashboard == \E record \in FormRecords : InputMetrics(record)

InitDashboard ==
    /\ PIdle /\ EIdle /\ DIdle /\ CIdle
    /\ records = <<>>
    /\ weights_file \in { File("absent", NoMap), File("mapping", CustomMap) }

SpecDashboard == InitDashboard /\ [][NextDashboard]_vars

-----------------------------------------------------------------------------
(* The dashboard's three writers of the inputs store: POST /input,         *)
(* POST /auto and POST /delete/<college_name>, handled one at a time.      *)

\* the colleges of these runs (names that read_csv keeps as strings)
StoreNames == { "A", "B" }

\* what the form submits for them: full or empty metrics
StoreForms ==
    { [ prof EXCEPT !.college_name = Str(name) ] :
        name \in StoreNames, prof \in { TypicalRecord, BaseRecord } }

\* what POST /auto gets from the site: nothing (no site resolved, or nothing
\* scraped), or some counts
NoScrape == [k \in {} |-> None]
ScrapedSites ==
    { NoScrape,
      [k \in {"faculty_count", "phd_count", "student_count", "placement_rate"} |->
          CASE k = "faculty_count" -> Num(100) [] k = "phd_count" -> Num(50)
            [] k = "student_count" -> Num(1000) [] k = "placement_rate" -> Num(80)] }

\* map_scraped_to_record, lines 1118-1185 (the scraped counts of these runs
\* give a whole phd_percent, so round(phd_percent, 2) is a whole number)
map_scraped_to_record(college_name, website_url, scraped) ==
    LET get(k, default) == IF k \in DOMAIN scraped THEN scraped[k] ELSE default
        or0(val) == IF Truthy(val) THEN val ELSE Num(0)
        faculty_count == get("faculty_count", None)
        phd_count == get("phd_count", None)
        phd_percent ==
            IF Truthy(faculty_count) /\ Truthy(phd_count) /\ faculty_count.v > 0
            THEN Round2(RMul(RDiv(R(phd_count.v), R(faculty_count.v)), R(100)))
            ELSE R(0)
    IN  [ BaseRecord EXCEPT
            !.college_name = Str(college_name),
            !.website_url = Str(website_url),
            !.image_url = get("image_url", Str("")),
            !.institution_type = Str("college"),
            !.scraping_status = IF DOMAIN scraped # {} THEN Str("success") ELSE Str("manual_input"),
            !.F1 = get("regular_faculty", or0(faculty_count)),
            !.F2 = get("visiting_phd", Num(0)),
            !.seats_N = or0(get("student_count", None)),
            !.phd_percent = Num(phd_percent[1] \div phd_percent[2]),
            !.avg_experience_years = get("avg_experience", Num(0)),
            !.EXLIP = get("library_physical", Num(0)),
            !.EXLIE = get("library_electronic", Num(0)),
            !.EXLB = get("lab_expenditure", Num(0)),
            !.SEC_pA_percentile = get("sports_percentile", Num(0)),
            !.SEC_pB_percentile = get("competitions_percentile", Num(0)),
            !.SEC_pC_percentile = get("cultural_percentile", Num(0)),
            !.SEC_winners_count = Num(5),
            !.PW = get("international_publications", Num(0)),
            !.PS = or0(get("publications", None)),
            !.PG = get("national_publications", Num(0)),
            !.PI = get("conference_publications", Num(0)),
            !.CCW = get("book_chapters", Num(0)),
            !.CCS = or0(get("citations", None)),
            !.PF_filed = Num(25),
            !.PG_granted = or0(get("patents", None)),
            !.PL_licensed_count = get("patents_licensed", Num(0)),
            !.EP_revenue = Num(get("research_earnings", Num(0)).v
                               + get("consultancy_earnings", Num(0)).v),
            !.UE_graduating_percent = get("placement_rate", Num(0)),
            !.applications_A = get("applications", Num(get("job_offers", Num(0)).v * 10)),
            !.CES_N = get("certifications", get("linkedin_mentions", Num(0))),
            !.RD_other_states = get("other_states_percent", Num(0)),
            !.RD_other_countries = Num(5),
            !.WS_women_students_percent =
                get("women_students_percent", get("female_percentage", Num(0))),
            !.WS_women_faculty_percent = get("women_faculty_percent", Num(0)),
            !.WS_women_leadership_percent = Num(40),
            !.ESCS_disadvantaged_percent = Num(25),
            !.DAP_ramps = Bool(TRUE), !.DAP_lifts = Bool(TRUE),
            !.DAP_walking_aids = Bool(TRUE), !.DAP_toilets = Bool(TRUE),
            !.DAP_braille_labs = Bool(TRUE), !.DAP_av_aids = Bool(TRUE),
            !.PR_survey = get("perception_survey", get("engagement_score", Num(0))),
            !.sanctioned_S = get("sanctioned_intake", get("sanctioned_seats", Num(0))) ]

\* POST /auto (lines 1188-1244): the mapped record is upserted and saved; the
\* scores are not recomputed and neither CSV file is written
AutoScrape(college_name, scraped) ==
    /\ posts < MaxPosts
    /\ posts' = posts + 1
    /\ inputs' = Upsert(inputs, map_scraped_to_record(college_name,
                                     IF DOMAIN scraped # {} THEN "https://site.example" ELSE "",
                                     scraped))
    /\ UNCHANGED <<scores_csv, results_csv>>
    /\ UNCHANGED <<pvars, evars, cvars, requests>>

\* df[df['college_name'] != college_name] on the rows read back from a CSV
\* file: KeyError when the file has no such column
drop_college(rows, college_name) ==
    IF rows # <<>> /\ "college_name" \notin DOMAIN rows[1]
    THEN [err |-> "KeyError", rows |-> rows]
    ELSE [err |-> "none",
          rows |-> SelectSeq(rows, LAMBDA row : row.college_name # Str(college_name))]

\* POST /delete/<college_name> (lines 1247-1273): the inputs lose the records
\* of that name; each CSV file is filtered and written back inside a try whose
\* except passes, so a file whose filter raises stays as it is
DeleteCollege(college_name) ==
    /\ posts < MaxPosts
    /\ posts' = posts + 1
    /\ inputs' = SelectSeq(inputs, LAMBDA r : Get(r, "college_name") # Str(college_name))
    /\ scores_csv' = drop_college(scores_csv, college_name).rows
    /\ results_csv' = drop_college(results_csv, college_name).rows
    /\ UNCHANGED <<pvars, evars, cvars, requests>>

NextStore ==
    \/ \E record \in StoreForms : InputMetrics(record)
    \/ \E college_name \in StoreNames, scraped \in ScrapedSites : AutoScrape(college_name, scraped)
    \/ \E college_name \in StoreNames : DeleteCollege(college_name)

InitStore ==
    /\ PIdle /\ EIdle /\ DIdle /\ CIdle
    /\ records = <<>>
    /\ weights_file \in { File("absent", NoMap), File("mapping", CustomMap) }

SpecStore == InitStore /\ [][NextStore]_vars

-----------------------------------------------------------------------------
(* POST /input requests handled at the same time (app.run serves each      *)
(* request on a thread of its own): the steps of lines 675-709, each a     *)
(* read or a write of a file, interleave.                                  *)

\* inputs = load_inputs() and the upsert into that list (lines 675-684): the
\* list is what the file holds now, [] while another request has the file open
\* for writing and has not written it yet (json.load raises on the truncated
\* file, lines 31-34)
ReqLoad(q) ==
    /\ requests[q].pc = "start"
    /\ requests' = [requests EXCEPT ![q].pc = "loaded",
                                    ![q].inputs = Upsert(inputs, requests[q].record)]
    /\ UNCHANGED <<inputs, scores_csv, results_csv, posts>>
    /\ UNCHANGED <<pvars, evars, cvars>>

\* save_inputs, line 39: open(INPUTS_STORE, "w") truncates the file
ReqOpen(q) ==
    /\ requests[q].pc = "loaded"
    /\ inputs' = <<>>
    /\ requests' = [requests EXCEPT ![q].pc = "opened"]
    /\ UNCHANGED <<scores_csv, results_csv, posts>>
    /\ UNCHANGED <<pvars, evars, cvars>>

\* save_inputs, line 40: json.dump writes the request's list
ReqDump(q) ==
    /\ requests[q].pc = "opened"
    /\ inputs' = requests[q].inputs
    /\ requests' = [requests EXCEPT ![q].pc = "saved"]
    /\ UNCHANGED <<scores_csv, results_csv, posts>>
    /\ UNCHANGED <<pvars, evars, cvars>>

\* lines 687-709: the scores of the request's list are computed and the two
\* CSV files written; the request ends (in an error when compute_scores raises)
ReqScore(q) ==
    /\ requests[q].pc = "saved"
    /\ requests' = [requests EXCEPT ![q].pc = "done"]
    /\ \E out \in {compute_scores(requests[q].inputs, weights_file)} :
         IF out.err # "none"
         THEN UNCHANGED <<scores_csv, results_csv>>
         ELSE /\ scores_csv' = out.results
              /\ results_csv' = SummaryRows(out.results)
    /\ UNCHANGED <<inputs, posts>>
    /\ UNCHANGED <<pvars, evars, cvars>>

NextConcurrent ==
    \/ \E q \in 1..MaxRequests : ReqLoad(q)
    \/ \E q \in 1..MaxRequests : ReqOpen(q)
    \/ \E q \in 1..MaxRequests : ReqDump(q)
    \/ \E q \in 1..MaxRequests : ReqScore(q)

\* up to MaxRequests requests arrive at a store that is empty
InitConcurrent ==
    /\ PIdle /\ EIdle /\ CIdle
    /\ inputs = <<>> /\ scores_csv = <<>> /\ results_csv = <<>> /\ posts = 0
    /\ requests \in [1..MaxRequests -> [pc : {"start"}, record : StoreForms, inputs : {<<>>}]]
    /\ records = <<>>
    /\ weights_file = File("absent", NoMap)

SpecConcurrent == InitConcurrent /\ [][NextConcurrent]_vars

-----------------------------------------------------------------------------
(* A caller of percentile: one population ranked for a target, then for a  *)
(* second target.                                                          *)

PercentileCall(values, target) ==
    /\ pcalls = 0
    /\ pvalues' = values
    /\ ptarget' = target
    /\ presult' = percentile(values, target)
    /\ pcalls' = 1
    /\ UNCHANGED <<ptarget_prev, presult_prev>>
    /\ UNCHANGED <<evars, dvars, cvars>>

PercentileAgain(target) ==
    /\ pcalls = 1
    /\ ptarget_prev' = ptarget
    /\ presult_prev' = presult
    /\ ptarget' = target
    /\ presult' = percentile(pvalues, target)
    /\ pcalls' = 2
    /\ UNCHANGED pvalues
    /\ UNCHANGED <<evars, dvars, cvars>>

NextPercentile ==
    \/ \E values \in Populations, target \in PTargets : PercentileCall(values, target)
    \/ \E target \in PTargets : PercentileAgain(target)

InitPercentile ==
    /\ PIdle /\ EIdle /\ DIdle /\ CIdle
    /\ records = <<>>
    /\ weights_file = File("absent", NoMap)

SpecPercentile == InitPercentile /\ [][NextPercentile]_vars

-----------------------------------------------------------------------------
(* The command-line pipeline of main.py: NIRFCalculator.run asks for the   *)
(* colleges, scrapes each, scores each, displays and saves the results.    *)

\* the keys calculate_college_scores reads, all given by apply_intelligent_defaults
DataKeys ==
    { "faculty_count", "phd_count", "student_count", "publications", "citations",
      "patents", "median_salary_lpa", "students_placed", "higher_studies",
      "female_percentage", "obc_percentage", "sc_percentage", "pwd_students",
      "linkedin_mentions", "engagement_score" }

\* the defaults of lines 428-452
Defaults ==
    [k \in DataKeys |->
        CASE k = "faculty_count" -> R(200) [] k = "phd_count" -> R(120)
          [] k = "student_count" -> R(4000) [] k = "publications" -> R(300)
          [] k = "citations" -> R(2000) [] k = "patents" -> R(15)
          [] k = "median_salary_lpa" -> R(6) [] k = "students_placed" -> R(80)
          [] k = "higher_studies" -> R(20) [] k = "female_percentage" -> R(45)
          [] k = "obc_percentage" -> R(25) [] k = "sc_percentage" -> R(15)
          [] k = "pwd_students" -> R(2) [] k = "linkedin_mentions" -> R(500)
          [] k = "engagement_score" -> R(75)]

\* the higher defaults of premier institutions, lines 457-467
PremierDefaults ==
    [k \in DataKeys |->
        CASE k = "faculty_count" -> R(400) [] k = "phd_count" -> R(300)
          [] k = "student_count" -> R(8000) [] k = "publications" -> R(800)
          [] k = "citations" -> R(5000) [] k = "patents" -> R(30)
          [] k = "median_salary_lpa" -> R(12) [] k = "students_placed" -> R(95)
          [] k = "higher_studies" -> R(30) [] k = "linkedin_mentions" -> R(2000)
          [] k = "engagement_score" -> R(85)
          [] OTHER -> Defaults[k]]

\* the names a college can be entered under; is_premier is the keyword test of
\* line 455 ('iit', 'iim', 'nit', 'central' in the lower-cased name)
CollegeNames == { "", "IIT Madras", "ABC College" }
is_premier(college_name) == college_name = "IIT Madras"

\* the urls a college can be entered with; urlparse raises ValueError
\* ("Invalid IPv6 URL") on the second
CollegeUrls == { "", "http://[bad", "https://abc.example" }
normalize_raises(url) == url = "http://[bad"

\* what the pages of a reachable site can yield before the defaults are applied
NoData == [k \in {} |-> R(0)]
ScrapedPages ==
    { NoData,
      [k \in {"median_salary_lpa"} |-> R(9)],
      [k \in {"faculty_count", "student_count", "linkedin_mentions", "engagement_score"} |->
          CASE k = "faculty_count" -> R(150) [] k = "student_count" -> R(3000)
            [] k = "linkedin_mentions" -> R(500) [] k = "engagement_score" -> R(75)] }

\* apply_intelligent_defaults, lines 426-475: a default for every missing key
apply_intelligent_defaults(data, college_name) ==
    LET defaults == IF is_premier(college_name) THEN PremierDefaults ELSE Defaults
    IN  [k \in DOMAIN data \cup DataKeys |-> IF k \in DOMAIN data THEN data[k] ELSE defaults[k]]

\* what is typed at the prompts of get_college_inputs: a name and a url for
\* each college of the count entered
MaxColleges == 2
Entries == UNION { [1..n -> [name : CollegeNames, url : CollegeUrls]] : n \in 0..MaxColleges }

\* lines 43-55: an entry lacking the name or the url is dropped, the id is the
\* position of the entry whether or not earlier ones were dropped
RECURSIVE Entered(_, _)
Entered(entries, i) ==
    IF i > Len(entries) THEN <<>>
    ELSE IF entries[i].name # "" /\ entries[i].url # ""
    THEN <<[name |-> entries[i].name, url |-> entries[i].url, id |-> i]>> \o Entered(entries, i + 1)
    ELSE Entered(entries, i + 1)

\* load_weights of main.py (lines 23-26): yaml.safe_load of core/weights.yaml,
\* with no fallback
load_weights(file) ==
    IF file.kind = "empty" THEN [kind |-> "none", map |-> NoMap]
    ELSE IF file.kind = "scalar" THEN [kind |-> "scalar", map |-> NoMap]
    ELSE [kind |-> "dict", map |-> file.map]

\* calculate_college_scores, lines 477-532: data[key] raises KeyError for a
\* missing key
calculate_college_scores(college_data, weights) ==
    LET data == college_data.data
        tlr_score == RDiv(RSum(<< RMul(data["faculty_count"], Rat(3, 10)),
                                  RMul(data["phd_count"], Rat(5, 10)),
                                  RMul(data["student_count"], Rat(2, 10)) >>), R(100))
        rp_score == RDiv(RSum(<< RMul(data["publications"], Rat(4, 10)),
                                 RMul(data["citations"], Rat(4, 10)),
                                 RMul(data["patents"], Rat(2, 10)) >>), R(100))
        go_score == RDiv(RSum(<< RMul(data["median_salary_lpa"], Rat(5, 10)),
                                 RMul(data["students_placed"], Rat(3, 10)),
                                 RMul(data["higher_studies"], Rat(2, 10)) >>), R(10))
        oi_score == RSum(<< RMul(data["female_percentage"], Rat(4, 10)),
                            RMul(data["obc_percentage"], Rat(3, 10)),
                            RMul(data["sc_percentage"], Rat(2, 10)),
                            RMul(data["pwd_students"], Rat(1, 10)) >>)
        pr_score == RSum(<< RMul(data["linkedin_mentions"], Rat(7, 10)),
                            RMul(data["engagement_score"], Rat(3, 10)) >>)
        w == [k \in {"TLR", "RP", "GO", "OI", "PR"} |-> Subscript(weights, k)]
        order == <<"TLR", "RP", "GO", "OI", "PR">>
        bad == {i \in DOMAIN order : w[order[i]].err # "none"}
    IN  IF ~(DataKeys \subseteq DOMAIN data) THEN [err |-> "KeyError"]
        ELSE IF bad # {} THEN [err |-> w[order[CHOOSE i \in bad : \A j \in bad : i <= j]].err]
        ELSE [err |-> "none",
              TLR |-> Round2(tlr_score), RP |-> Round2(rp_score), GO |-> Round2(go_score),
              OI |-> Round2(oi_score), PR |-> Round2(pr_score),
              Total |-> Round2(RDiv(RSum(<< RMul(tlr_score, w["TLR"].val),
                                           RMul(rp_score, w["RP"].val),
                                           RMul(go_score, w["GO"].val),
                                           RMul(oi_score, w["OI"].val),
                                           RMul(pr_score, w["PR"].val) >>), R(100)))]

\* lines 617-621: the colleges are asked for; run returns when there is none
\* (a count that is no number gives none, as a count of 0 does)
GetCollegeInputs(entries) ==
    /\ cli_pc = "idle"
    /\ colleges' = Entered(entries, 1)
    /\ cli_pc' = IF colleges' = <<>> THEN "returned" ELSE "scraping"
    /\ UNCHANGED <<colleges_data, scores, cli_err>>
    /\ UNCHANGED <<pvars, evars, dvars>>

\* scrape_college_data for the next college, lines 627-631 and 59-102:
\* advanced_scraping raises in normalize, or finds the site unreachable and
\* returns the defaults, or returns what the pages gave with the defaults filled
\* in; whatever it raises is caught and leaves "data" empty
ScrapeCollegeData(page, reachable) ==
    /\ cli_pc = "scraping"
    /\ LET college == colleges[Len(colleges_data) + 1]
           raised == normalize_raises(college.url)
           data == IF raised THEN NoData
                   ELSE IF ~reachable THEN apply_intelligent_defaults(NoData, college.name)
                   ELSE apply_intelligent_defaults(page, college.name)
           scraped_data ==
               [ college_name |-> college.name, college_id |-> college.id,
                 scraping_status |-> IF raised THEN "failed"
                                     ELSE IF DOMAIN data # {} THEN "success"
                                     ELSE "insufficient_data",
                 data |-> data ]
       IN  /\ colleges_data' = Append(colleges_data, scraped_data)
           /\ cli_pc' = IF Len(colleges_data') = Len(colleges) THEN "scoring" ELSE "scraping"
    /\ UNCHANGED <<colleges, scores, cli_err>>
    /\ UNCHANGED <<pvars, evars, dvars>>

\* one iteration of the scoring loop, lines 634-638: an exception leaves the
\* loop and is caught by run (lines 650-653), which returns
CalculateCollegeScores ==
    /\ cli_pc = "scoring"
    /\ \E score \in {calculate_college_scores(colleges_data[Len(scores) + 1],
                                              load_weights(weights_file))} :
         IF score.err # "none"
         THEN /\ cli_err' = score.err
              /\ cli_pc' = "returned"
              /\ UNCHANGED scores
         ELSE /\ scores' = Append(scores, score)
              /\ cli_pc' = IF Len(scores') = Len(colleges_data) THEN "display" ELSE "scoring"
              /\ UNCHANGED cli_err
    /\ UNCHANGED <<colleges, colleges_data>>
    /\ UNCHANGED <<pvars, evars, dvars>>

\* display_results and save_results, lines 640-644, 534-611: both read
\* college["name"] of the scraped entries, which raises KeyError when the
\* entry has no such key; else the two CSV files are written
DisplayAndSave ==
    /\ cli_pc = "display"
    /\ cli_pc' = "returned"
    /\ IF \E i \in DOMAIN colleges_data : "name" \notin DOMAIN colleges_data[i]
       THEN /\ cli_err' = "KeyError"
            /\ UNCHANGED <<scores_csv, results_csv>>
       ELSE /\ cli_err' = cli_err
            /\ scores_csv' =
                 [i \in DOMAIN scores |->
                     [ college_name |-> colleges_data[i]["name"],
                       college_id |-> colleges_data[i]["id"],
                       scraping_status |-> colleges_data[i].scraping_status,
                       TLR |-> scores[i].TLR, RP |-> scores[i].RP, GO |-> scores[i].GO,
                       OI |-> scores[i].OI, PR |-> scores[i].PR, Total |-> scores[i].Total ]]
            /\ results_csv' =
                 sorted_by_total(
                     [i \in DOMAIN scores |->
                         [ Rank |-> i, College |-> colleges_data[i]["name"],
                           TLR |-> scores[i].TLR, RP |-> scores[i].RP, GO |-> scores[i].GO,
                           OI |-> scores[i].OI, PR |-> scores[i].PR, Total |-> scores[i].Total,
                           Status |-> colleges_data[i].scraping_status ]])
    /\ UNCHANGED <<colleges, colleges_data, scores>>
    /\ UNCHANGED <<pvars, evars, inputs, posts, requests>>

NextCli ==
    \/ \E entries \in Entries : GetCollegeInputs(entries)
    \/ \E page \in ScrapedPages, reachable \in BOOLEAN : ScrapeCollegeData(page, reachable)
    \/ CalculateCollegeScores
    \/ DisplayAndSave

\* a calculator constructed with a core/weights.yaml holding the five weights
\* (the constructor raises without the file)
InitCli ==
    /\ PIdle /\ EIdle /\ DIdle /\ CIdle
    /\ records = <<>>
    /\ weights_file \in { File("mapping", CustomMap), File("mapping", DefaultWeights.map) }

SpecCli == InitCli /\ [][NextCli]_vars

-----------------------------------------------------------------------------
(* Properties of percentile (checked under SpecPercentile).                *)

\* the members of a population at or below a target, counted as the spec words it
CountLe(values, target) == Cardinality({i \in DOMAIN values : RLe(values[i], target)})

\* C1: percentile(values, target) is 0 for an empty population and otherwise
\* exactly 100 * |{v in values : v <= target}| / |values|, duplicates counted;
\* percentile([v], v) = 100, and a target below every member gives 0.
C1_PercentileRank ==
    pcalls >= 1 =>
        /\ pvalues = <<>> => presult = R(0)
        /\ pvalues # <<>> =>
               presult = Rat(100 * CountLe(pvalues, ptarget), Len(pvalues))
        /\ (Len(pvalues) = 1 /\ pvalues[1] = ptarget) => presult = R(100)
        /\ (pvalues # <<>> /\ \A i \in DOMAIN pvalues : RLt(ptarget, pvalues[i]))
               => presult = R(0)

\* a population with a duplicate, ranked for the duplicated value, strictly
\* between 0 and 100
C1_Witness ==
    /\ pcalls = 1 /\ Len(pvalues) = 3
    /\ \E i, j \in DOMAIN pvalues : i # j /\ pvalues[i] = pvalues[j] /\ pvalues[i] = ptarget
    /\ presult = Rat(200, 3)

\* C2: for every population, the empty one included, and every target the
\* result of percentile lies in [0, 100].
C2_PercentileBounds ==
    pcalls >= 1 => RLe(R(0), presult) /\ RLe(presult, R(100))

\* a population of several members, all at or below the target
C2_Witness ==
    pcalls >= 1 /\ Len(pvalues) >= 2 /\ presult = R(100)

\* C3: for a fixed population percentile is monotone non-decreasing in the
\* target: target1 < target2 implies percentile(pop, target1) <= percentile(pop, target2).
C3_PercentileMonotone ==
    (pcalls = 2 /\ RLt(ptarget_prev, ptarget)) => RLe(presult_prev, presult)

\* two calls on one population, the second for a larger target and a larger rank
C3_Witness ==
    /\ pcalls = 2 /\ RLt(ptarget_prev, ptarget) /\ RLt(presult_prev, presult)
    /\ Len(pvalues) >= 2

-----------------------------------------------------------------------------
(* Properties of compute_scores.                                           *)

\* the quantities the claims name, read off a record
Seats(r) == safe_float(Get(r, "seats_N"))
Faculty(r) == RAdd(safe_float(Get(r, "F1")), RMul(Rat(3, 10), safe_float(Get(r, "F2"))))
Intake(r) == safe_float(Get(r, "sanctioned_S"))
Apps(r) == safe_float(Get(r, "applications_A"))

C5_SeatsZeroAsStated ==
    \A i \in DOMAIN locals :
        Seats(records[i]) = R(0) =>
            locals[i].FSR = R(0) /\ locals[i].SR_ratio = R(0)

\* C5 amended: any record with seat count = 0 yields a faculty-ratio
\* contribution of 0, whatever its other fields are; its application ratio is 0
\* when its sanctioned intake is <= 0 and applications / intake when the intake
\* is > 0, whatever its seat count is.
C5_SeatsZero ==
    \A i \in DOMAIN locals :
        LET r == records[i]
        IN  /\ Seats(r) = R(0) => locals[i].FSR = R(0) /\ locals[i].F_over_N = R(0)
            /\ RLe(Intake(r), R(0)) => locals[i].SR_ratio = R(0)
            /\ RLt(R(0), Intake(r)) => locals[i].SR_ratio = RDiv(Apps(r), Intake(r))

\* a record without seats but with faculty, applications and intake
C5_Witness ==
    \E i \in DOMAIN locals :
        /\ Seats(records[i]) = R(0) /\ RLt(R(0), Faculty(records[i]))
        /\ RLt(R(0), Intake(records[i])) /\ RLt(R(0), Apps(records[i]))
        /\ locals[i].FSR = R(0) /\ locals[i].SR_ratio = R(5)

\* C6 as stated: every ratio of the engine replaces a denominator <= 0 by 1.0,
\* so the ratio equals its numerator rather than 0.
C6_OneGuardAsStated ==
    /\ \A i \in DOMAIN lists.P_list :
          LET r == records[i]
          IN  /\ lists.P_list[i] = RDiv(P_of(r), OrOne(Faculty(r)))
              /\ lists.CC_over_F_list[i] = RDiv(CC_of(r), OrOne(P_of(r)))
              /\ lists.PF_over_F_list[i] =
                    RDiv(safe_float(Get(r, "PF_filed")), OrOne(Faculty(r)))
              /\ lists.EP_over_F_list[i] =
                    RDiv(safe_float(Get(r, "EP_revenue")), OrOne(Faculty(r)))
              /\ lists.EXLI_per_student_list[i] =
                    RDiv(RAdd(safe_float(Get(r, "EXLIP")),
                              RMul(R(2), safe_float(Get(r, "EXLIE")))), OrOne(Seats(r)))
              /\ lists.PR_SR_ratio_list[i] = RDiv(Apps(r), OrOne(Intake(r)))
    /\ \A i \in DOMAIN locals :
          /\ locals[i].F_over_N = RDiv(Faculty(records[i]), OrOne(Seats(records[i])))
          /\ pc \in {"pass2", "returned"} =>
                locals[i].SR = RMul(R(50), RDiv(locals[i].SR_ratio, OrOne(R_star)))

\* C6 amended: the faculty-normalised ratios (publications, patents filed,
\* patents granted, revenue) and citations / publications replace a denominator
\* <= 0 by 1.0, so the ratio equals its numerator; library spend / seats,
\* faculty / seats, applications / intake and ratio / cohort anchor are 0 when
\* their denominator is <= 0.
C6_TwoGuards ==
    /\ \A i \in DOMAIN lists.P_list :
          LET r == records[i]
          IN  /\ RLe(Faculty(r), R(0)) =>
                    /\ lists.P_list[i] = P_of(r)
                    /\ lists.PF_over_F_list[i] = safe_float(Get(r, "PF_filed"))
                    /\ lists.PG_over_F_list[i] = safe_float(Get(r, "PG_granted"))
                    /\ lists.EP_over_F_list[i] = safe_float(Get(r, "EP_revenue"))
              /\ RLe(P_of(r), R(0)) => lists.CC_over_F_list[i] = CC_of(r)
              /\ RLe(Seats(r), R(0)) => lists.EXLI_per_student_list[i] = R(0)
              /\ RLe(Intake(r), R(0)) => lists.PR_SR_ratio_list[i] = R(0)
    /\ \A i \in DOMAIN locals :
          /\ RLe(Seats(records[i]), R(0)) => locals[i].F_over_N = R(0)
          /\ (pc \in {"pass2", "returned"} /\ RLe(R_star, R(0))) => locals[i].SR = R(0)

\* a record without faculty whose publication ratio is its publication score,
\* beside a record without seats whose library and faculty ratios are 0
C6_Witness ==
    /\ pc = "returned" /\ Len(locals) = 2
    /\ \E i, j \in DOMAIN locals :
          /\ Faculty(records[i]) = R(0) /\ RLt(R(0), P_of(records[i]))
          /\ lists.P_list[i] = P_of(records[i])
          /\ Seats(records[j]) = R(0) /\ RLt(R(0), Faculty(records[j]))
          /\ RLt(R(0), safe_float(Get(records[j], "EXLIP")))
          /\ lists.EXLI_per_student_list[j] = R(0) /\ locals[j].F_over_N = R(0)

\* the Total the built-in weights give for the sub-scores of one scored record
TotalWith(weights, l) ==
    Round2(TotalScore(weights, l.TLR, l.RPII, l.GO, l.OI, l.PR).val)

\* C7: given a malformed weights file (unparseable, empty, or not a mapping of
\* the five keys to numbers) compute_scores raises no error and every record's
\* Total is the Total of the default weights 30, 30, 20, 10, 10.
C7_MalformedFallsBack ==
    weights_file \in MalformedFiles =>
        /\ pc # "raised"
        /\ pc = "returned" =>
              \A i \in DOMAIN results : results[i].Total = TotalWith(DefaultWeights, locals[i])

\* the weights a mapping stands for when each missing key takes its default
Completed(map) ==
    [kind |-> "dict",
     map |-> [k \in {"TLR", "RP", "GO", "OI", "PR"} |->
                IF k \in DOMAIN map THEN map[k]
                ELSE IF k = "RP" /\ "RPII" \in DOMAIN map THEN map["RPII"]
                ELSE DefaultWeights.map[k]]]

\* C8: when the loaded weights are a mapping lacking one of the keys TLR,
\* RP/RPII, GO, OI or PR, compute_scores still produces results, with the
\* default for the missing key only and the configured values for the others.
C8_MissingKeyDefault ==
    weights_file \in IncompleteFiles =>
        /\ pc # "raised"
        /\ pc = "returned" =>
              \A i \in DOMAIN results :
                  results[i].Total = TotalWith(Completed(weights_file.map), locals[i])

\* C9: compute_scores returns exactly one result per input record: the output
\* has the length of the input and the i-th result carries the college_name of
\* the i-th record, for cohorts of any size, the empty one included.
C9_Cardinality ==
    /\ pc = "pass2" => Len(results) = idx - 1
    /\ pc = "returned" =>
          /\ Len(results) = Len(records)
          /\ \A i \in DOMAIN records :
                results[i].college_name = Get(records[i], "college_name")

\* a returned cohort of two differently named colleges
C9_Witness ==
    /\ pc = "returned" /\ Len(records) = 2 /\ Len(results) = 2
    /\ results[1].college_name = Str("A") /\ results[2].college_name = Str("B")

-----------------------------------------------------------------------------
(* Properties of the single-record cohort (checked under SpecSingle).      *)

\* the ceiling of the library part and of the laboratory part (lines 194-199)
LLCeiling(inst_type) == IF inst_type = "university" THEN R(20) ELSE R(15)

-----------------------------------------------------------------------------
(* Totality over sparse records (checked under SpecSparse).                *)

\* the record with 0 for every numeric field that is missing, None, "" or no
\* numeral, and False for every missing flag
ZeroFilled(r) ==
    [k \in DOMAIN r \cup NumericFields \cup FlagFields |->
        IF k \in NumericFields
        THEN IF Get(r, k).t \in {"num", "bool"} THEN r[k] ELSE Num(0)
        ELSE IF k \in DOMAIN r THEN r[k] ELSE Bool(FALSE)]

\* C12: compute_scores is total: on every cohort, however sparse, it raises
\* nothing and returns one ScoreResult per record, the scores being those of
\* the cohort with 0.0 in place of each missing or unparseable numeric field.
C12_Total ==
    /\ pc # "raised"
    /\ pc = "returned" =>
          /\ Len(results) = Len(records)
          /\ results = compute_scores([i \in DOMAIN records |-> ZeroFilled(records[i])],
                                      weights_file).results

-----------------------------------------------------------------------------
(* The ranking the dashboard writes (checked under SpecDashboard).         *)

\* the ways of listing n rows in another order
Orders(n) == {f \in [1..n -> 1..n] : \A i, j \in 1..n : f[i] = f[j] => i = j}

\* C13: the ranking the dashboard writes is the ScoreResults sorted by Total
\* in descending order, results of exactly equal Total keep their input
\* order, and the Rank of each row is its 1-based position.
C13_Ranking ==
    LET n == Len(scores_csv)
    IN  /\ Len(results_csv) = n
        /\ \E f \in Orders(n) :
             /\ \A k \in 1..n :
                   /\ results_csv[k].Rank = k
                   /\ results_csv[k].College = scores_csv[f[k]].college_name
                   /\ results_csv[k].Total_Score = scores_csv[f[k]].Total
             /\ \A k, l \in 1..n :
                   k < l => \/ RLt(scores_csv[f[l]].Total, scores_csv[f[k]].Total)
                            \/ /\ scores_csv[f[l]].Total = scores_csv[f[k]].Total
                               /\ f[k] < f[l]

\* three colleges ranked, two of them with equal Total, the first stored
\* college not ranked first
C13_Witness ==
    /\ Len(results_csv) = 3
    /\ results_csv[1].College # scores_csv[1].college_name
    /\ \E k \in 1..2 : results_csv[k].Total_Score = results_csv[k + 1].Total_Score
    /\ results_csv[1].Total_Score # results_csv[3].Total_Score

-----------------------------------------------------------------------------
(* The total and the rounding (checked under SpecWeights).                 *)

\* C14: each result's Total is (TLR*w_TLR + RP*w_RP + GO*w_GO + OI*w_OI +
\* PR*w_PR) / 100 of the unrounded sub-scores, rounded to 2 decimals, w_RP
\* being the value of the key RP, else of the key RPII, else 30; and each of the
\* five reported sub-scores is the unrounded sub-score rounded to 2 decimals.
C14_TotalFormula ==
    \A i \in DOMAIN results :
        LET l == locals[i]
            w == LoadWeights(weights_file).map
            w_RP == IF "RP" \in DOMAIN w THEN R(w["RP"].v)
                    ELSE IF "RPII" \in DOMAIN w THEN R(w["RPII"].v)
                    ELSE R(30)
            sum == RAdd(RAdd(RAdd(RAdd(RMul(l.TLR, R(w["TLR"].v)), RMul(l.RPII, w_RP)),
                                  RMul(l.GO, R(w["GO"].v))),
                             RMul(l.OI, R(w["OI"].v))),
                        RMul(l.PR, R(w["PR"].v)))
        IN  /\ results[i].Total = Round2(RDiv(sum, R(100)))
            /\ results[i].TLR = Round2(l.TLR) /\ results[i].RP = Round2(l.RPII)
            /\ results[i].GO = Round2(l.GO) /\ results[i].OI = Round2(l.OI)
            /\ results[i].PR = Round2(l.PR)

\* a returned cohort scored with a weights file that spells the key RPII, one
\* Total having more than two decimals before it is rounded and differing from
\* the Total the rounded sub-scores would give
C14_Witness ==
    /\ pc = "returned" /\ results # <<>>
    /\ weights_file = File("mapping", CustomMapRPII)
    /\ \E i \in DOMAIN results :
          /\ RLt(R(0), locals[i].RPII)
          /\ results[i].Total # locals[i].total_score
          /\ results[i].Total #
                Round2(TotalScore(LoadWeights(weights_file), results[i].TLR, results[i].RP,
                                  results[i].GO, results[i].OI, results[i].PR).val)

-----------------------------------------------------------------------------
(* The qualification and laboratory terms (checked under SpecDetail).      *)

Phd(r) == safe_float(Get(r, "phd_percent"))
AvgExp(r) == safe_float(Get(r, "avg_experience_years"))

\* C15: the PhD term is 15 * phd_percent / 95 up to 95 and exactly 15 above,
\* so 95 and 100 give the same term and the term is continuous at 95.
C15_PhdSaturation ==
    \A i \in DOMAIN locals :
        /\ RLe(Phd(records[i]), R(95)) =>
              RMul(R(95), locals[i].FQ) = RMul(R(15), Phd(records[i]))
        /\ RLt(R(95), Phd(records[i])) => locals[i].FQ = R(15)
        /\ Phd(records[i]) = R(95) => locals[i].FQ = R(15)
        /\ \A j \in DOMAIN locals :
              (Phd(records[i]) = R(95) /\ Phd(records[j]) = R(100)) =>
                  locals[i].FQ = locals[j].FQ

\* a cohort holding a record at 95 and a record at 100, both scored
C15_Witness ==
    /\ pc = "returned" /\ Len(locals) = 2
    /\ Phd(records[1]) = R(95) /\ Phd(records[2]) = R(100)
    /\ locals[1].FQ = R(15) /\ locals[2].FQ = R(15)

\* laboratory spending per student as the claim words it: spending over seats
LabPerStudent(r) ==
    IF RLt(R(0), Seats(r)) THEN RDiv(safe_float(Get(r, "EXLB")), Seats(r)) ELSE R(0)

\* laboratory spending as entered, 0 without seats
LabAsEntered(r) ==
    IF RLt(R(0), Seats(r)) THEN safe_float(Get(r, "EXLB")) ELSE R(0)

\* C19 as stated: the laboratory part ranks laboratory spending divided by the
\* seat count (0 when the seat count is <= 0) against the cohort's vector of
\* the same per-student values, scaled by 20 for a university and 15 otherwise.
C19_LabPerStudentAsStated ==
    pc \in {"pass2", "returned"} =>
        \A i \in DOMAIN locals :
            locals[i].LB =
                RDiv(RMul(LLCeiling(locals[i].inst_type),
                          percentile([j \in DOMAIN records |-> LabPerStudent(records[j])],
                                     LabPerStudent(records[i]))), R(100))

\* C19 (amended): the laboratory part ranks the laboratory spending as entered,
\* not divided by the seat count (0 when the seat count is <= 0), against the
\* cohort's vector of the same values, scaled by 20 for a university and 15
\* otherwise.
C19_LabAsEntered ==
    pc \in {"pass2", "returned"} =>
        \A i \in DOMAIN locals :
            locals[i].LB =
                RDiv(RMul(LLCeiling(locals[i].inst_type),
                          percentile([j \in DOMAIN records |-> LabAsEntered(records[j])],
                                     LabAsEntered(records[i]))), R(100))

\* two scored records with seats, the one spending less in all spending more
\* per student, and ranked below the other
C19_Witness ==
    /\ pc = "returned" /\ Len(locals) = 2
    /\ RLt(LabAsEntered(records[1]), LabAsEntered(records[2]))
    /\ RLt(LabPerStudent(records[2]), LabPerStudent(records[1]))
    /\ locals[1].pct.p_EXLB = R(50) /\ locals[2].pct.p_EXLB = R(100)

\* C20: the experience term is min(max(avg_experience_years - 30, 0), 15):
\* 0 at or below 30, avg_experience_years - 30 between 30 and 45, 15 at 45 and
\* above, and never outside [0, 15].
C20_ExperienceClamp ==
    \A i \in DOMAIN locals :
        LET a == AvgExp(records[i])
            FE == locals[i].FE
        IN  /\ RLe(a, R(30)) => FE = R(0)
            /\ (RLt(R(30), a) /\ RLt(a, R(45))) => FE = RSub(a, R(30))
            /\ RLe(R(45), a) => FE = R(15)
            /\ RLe(R(0), FE) /\ RLe(FE, R(15))

\* a scored cohort with one record on the linear part and one above 45
C20_Witness ==
    /\ pc = "returned" /\ Len(locals) = 2
    /\ RLt(R(30), AvgExp(records[1])) /\ RLt(AvgExp(records[1]), R(45))
    /\ locals[1].FE = RSub(AvgExp(records[1]), R(30))
    /\ RLt(R(45), AvgExp(records[2])) /\ locals[2].FE = R(15)

-----------------------------------------------------------------------------
(* The faculty ratio by institution type and the citation rank (checked    *)
(* under Spec).                                                            *)

\* C17: for the same faculty-to-seat ratio at or above 1/50 a university
\* gets an FSR at least as large as a non-university (the university
\* multiplier is the steeper one).
C17_UniversitySteeper ==
    \A i, j \in DOMAIN locals :
        ( /\ locals[i].inst_type = "university" /\ locals[j].inst_type # "university"
          /\ locals[i].F_over_N = locals[j].F_over_N
          /\ RLe(Rat(1, 50), locals[i].F_over_N) )
        => RLe(locals[j].FSR, locals[i].FSR)

\* C17 (amended): for the same faculty-to-seat ratio at or above 1/50 a
\* university gets an FSR no larger than a non-university: 300 times the ratio
\* (20 * 15) against 600 times the ratio (30 * 20), the non-university multiplier
\* being the steeper one.
C17_CollegeSteeper ==
    \A i, j \in DOMAIN locals :
        ( /\ locals[i].inst_type = "university" /\ locals[j].inst_type # "university"
          /\ locals[i].F_over_N = locals[j].F_over_N
          /\ RLe(Rat(1, 50), locals[i].F_over_N) )
        => /\ locals[i].FSR = RMul(R(300), locals[i].F_over_N)
           /\ locals[j].FSR = RMul(R(600), locals[j].F_over_N)
           /\ RLe(locals[i].FSR, locals[j].FSR)

\* a university and a college with the same ratio above the floor, both scored
C17_Witness ==
    /\ pc = "returned" /\ Len(locals) = 2
    /\ locals[1].inst_type = "university" /\ locals[2].inst_type = "college"
    /\ locals[1].F_over_N = locals[2].F_over_N
    /\ RLt(Rat(1, 50), locals[1].F_over_N)
    /\ RLt(locals[1].FSR, locals[2].FSR)

-----------------------------------------------------------------------------
(* The command-line pipeline (checked under SpecCli).                      *)

\* C16: a scraping failure never reaches the score computation: when run
\* returns, every college entered has a score, and every college was scored
\* from a record holding every field, the defaults standing in for what the
\* scrape did not give.
C16_ScrapeFailureContained ==
    cli_pc = "returned" =>
        /\ Len(scores) = Len(colleges)
        /\ \A i \in DOMAIN colleges_data : DataKeys \subseteq DOMAIN colleges_data[i].data

-----------------------------------------------------------------------------
(* Graduation outcomes and the application ratio (checked under            *)
(* SpecOutcome).                                                           *)

UEPercent(r) == safe_float(Get(r, "UE_graduating_percent"))

\* C21: for a graduating percentage in [0, 100] the graduating component is
\* at most 50 (reached at 80 percent) and the Graduation-Outcomes sub-score
\* lies in [0, 100].
C21_GraduationCapped ==
    \A i \in DOMAIN locals :
        (RLe(R(0), UEPercent(records[i])) /\ RLe(UEPercent(records[i]), R(100))) =>
            /\ RLe(locals[i].UE, R(50))
            /\ (UEPercent(records[i]) = R(80) => locals[i].UE = R(50))
            /\ RLe(R(0), locals[i].GO) /\ RLe(locals[i].GO, R(100))

\* C22: with non-negative applications and intakes the application-ratio part
\* of Perception lies in [0, 50]; it is 50 for every record attaining the
\* cohort's largest ratio when that is > 0, and 0 for every record when the
\* largest ratio is 0; the anchor of a non-empty cohort is its largest ratio.
C22_ApplicationRatio ==
    (pc \in {"pass2", "returned"} /\ records # <<>>) =>
        LET ratio == [j \in DOMAIN records |-> SR_ratio_of(records[j])]
            top == RMaxSeq(ratio)
        IN  /\ R_star = top
            /\ \A i \in DOMAIN locals :
                  /\ RLe(R(0), locals[i].SR) /\ RLe(locals[i].SR, R(50))
                  /\ (ratio[i] = top /\ RLt(R(0), top)) => locals[i].SR = R(50)
                  /\ top = R(0) => locals[i].SR = R(0)

\* a scored cohort whose second record attains the largest ratio, the first
\* record having a smaller positive one
C22_Witness ==
    /\ pc = "returned" /\ Len(locals) = 2
    /\ RLt(R(0), SR_ratio_of(records[1]))
    /\ RLt(SR_ratio_of(records[1]), SR_ratio_of(records[2]))
    /\ locals[2].SR = R(50)
    /\ RLt(R(0), locals[1].SR) /\ RLt(locals[1].SR, R(50))

-----------------------------------------------------------------------------
(* The two passes and the frame of compute_scores (checked under Spec).    *)

\* C23: compute_scores is two-phase: a record is scored only when every
\* derived list holds exactly one entry per record of the cohort, in input
\* order, and the anchor has been computed from them; and no step of the
\* second pass changes the lists, the per-record internals or the anchor.
C23_TwoPhase ==
    [][ /\ Len(locals') > Len(locals) =>
              /\ pc = "pass2"
              /\ \A k \in DOMAIN lists : Len(lists[k]) = Len(records)
              /\ lists = ListsOf(records)
              /\ Len(computed_internals) = Len(records)
              /\ R_star = RMaxSeq(lists.PR_SR_ratio_list)
        /\ pc = "pass2" =>
              /\ lists' = lists
              /\ computed_internals' = computed_internals
              /\ R_star' = R_star ]_vars

\* a cohort of two records with different application ratios, scored: the
\* first record was scored against the anchor set by the second
C23_Witness ==
    /\ pc = "returned" /\ Len(records) = 2 /\ Len(locals) = 2
    /\ Len(lists.PR_SR_ratio_list) = 2
    /\ RLt(lists.PR_SR_ratio_list[1], lists.PR_SR_ratio_list[2])
    /\ R_star = lists.PR_SR_ratio_list[2]
    /\ RLt(R(0), locals[1].SR) /\ RLt(locals[1].SR, R(50))

\* C24: compute_scores leaves its input unchanged: no step of a call changes
\* the length or the order of the records list, or adds, removes or changes a
\* key of a record.
C24_InputUnchanged ==
    [][ /\ Len(records') = Len(records)
        /\ \A i \in DOMAIN records :
              /\ DOMAIN records'[i] = DOMAIN records[i]
              /\ \A k \in DOMAIN records[i] : records'[i][k] = records[i][k] ]_vars

\* a returned call on a record holding nothing but its name: the result has
\* the defaults of the missing keys, the record still has the one key
C24_Witness ==
    /\ pc = "returned" /\ Len(records) = 2 /\ Len(results) = 2
    /\ DOMAIN records[2] = {"college_name"}
    /\ results[2].institution_type = "college"
    /\ results[2].image_url = Str("")

-----------------------------------------------------------------------------
(* The weights of one pass (checked under SpecRewrite).                    *)

\* C25: all results of one compute_scores call are computed with the same
\* weights, also when the weights file is rewritten while the call runs.
C25_OneWeightConfig ==
    pc = "returned" =>
        \A i, j \in DOMAIN locals : locals[i].weights = locals[j].weights

-----------------------------------------------------------------------------
(* The inputs store and the files derived from it (checked under           *)
(* SpecStore).                                                             *)

NamesOf(stored) == [i \in DOMAIN stored |-> Get(stored[i], "college_name")]

\* C26: the inputs store never holds two records of one college_name; a
\* submission for a stored name replaces that record where it is, and a
\* submission for a new name appends one record.
C26_UniqueNames ==
    [][ /\ \A i, j \in DOMAIN inputs' : NamesOf(inputs')[i] = NamesOf(inputs')[j] => i = j
        /\ Len(inputs') >= Len(inputs) =>
              /\ Len(inputs') <= Len(inputs) + 1
              /\ \A i \in DOMAIN inputs : NamesOf(inputs')[i] = NamesOf(inputs)[i] ]_vars

\* two colleges stored after three submissions, the first of them replaced
\* where it was by the record of POST /auto
C26_Witness ==
    /\ posts = 3 /\ Len(inputs) = 2
    /\ NamesOf(inputs) = <<Str("A"), Str("B")>>
    /\ inputs[1].scraping_status = Str("success")
    /\ inputs[2].scraping_status = Str("manual_input")

\* C27: after POST /delete/<college_name> the college is in no store: not in
\* the inputs, not in the scores file and not in the results-summary file.
C27_DeletedEverywhere ==
    [][ \A college_name \in StoreNames :
            DeleteCollege(college_name) =>
                /\ \A i \in DOMAIN inputs' : NamesOf(inputs')[i] # Str(college_name)
                /\ \A i \in DOMAIN scores_csv' : scores_csv'[i].college_name # Str(college_name)
                /\ \A i \in DOMAIN results_csv' : results_csv'[i].College # Str(college_name)
      ]_vars

\* C28: after every completed operation on the inputs store the scores file
\* holds compute_scores of the stored inputs.
C28_ScoresFresh ==
    posts > 0 => scores_csv = compute_scores(inputs, weights_file).results

-----------------------------------------------------------------------------
(* Requests handled at the same time (checked under SpecConcurrent).       *)

\* C29: when two POST /input requests for different college names have both
\* completed, both records are in the inputs store.
C29_NoLostSubmission ==
    \A p, q \in DOMAIN requests :
        ( /\ requests[p].pc = "done" /\ requests[q].pc = "done"
          /\ requests[p].record.college_name # requests[q].record.college_name )
        => \E i \in DOMAIN inputs : inputs[i] = requests[p].record

-----------------------------------------------------------------------------
(* The end of the command-line pipeline (checked under SpecCli).           *)

\* C30: when at least one college was entered and every college was scraped
\* and scored, run goes on through display_results to save_results: it
\* returns without an exception and with both CSV files written.
C30_RunReachesSave ==
    ( /\ cli_pc = "returned" /\ colleges # <<>>
      /\ Len(colleges_data) = Len(colleges) /\ Len(scores) = Len(colleges) )
    => /\ cli_err = "none"
       /\ Len(scores_csv) = Len(colleges)
       /\ Len(results_csv) = Len(colleges)

====
